---- MODULE Spec2Model ----
(***************************************************************************)
(* A model of bns's two configuration objects: Hosts (lib/hosts.js) and    *)
(* ResolvConf (lib/resolvconf.js).                                         *)
(*                                                                         *)
(* A JavaScript string is a sequence of one-character strings, so that     *)
(* trim, toLowerCase, split, indexOf and substring are computed as the     *)
(* code computes them.  A nullable value is a sequence of length 0 (null)  *)
(* or 1 (the value).  A method that may throw is an operator that returns  *)
(* [st |-> the object's state when it returns or throws, err |-> whether   *)
(* it threw].                                                              *)
(***************************************************************************)
EXTENDS Integers, Sequences, FiniteSets, TLC

VARIABLES rc, last, hosts, hlast, added, loading, hloading, orig

vars == <<rc, last, hosts, hlast, added, loading, hloading, orig>>

-----------------------------------------------------------------------------
(* JavaScript strings *)

Chars(s) == [i \in 1..Len(s) |-> SubSeq(s, i, i)]

NULL == <<>>

Some(v) == <<v>>

IsNull(n) == n = <<>>

Val(n) == n[1]

\* A JavaScript string that is neither null nor empty.
truthy(n) == n # <<>> /\ n[1] # <<>>

Rep(s, n) == [i \in 1..n |-> s]

\* F applied to the value of e, which is computed once.
Bind(e, F(_)) == F(e)

RECURSIVE Concat(_)
Concat(ss) == IF ss = <<>> THEN <<>> ELSE Head(ss) \o Concat(Tail(ss))

RECURSIVE Join(_, _)
Join(ss, sep) ==
  IF ss = <<>> THEN <<>>
  ELSE IF Len(ss) = 1 THEN ss[1]
  ELSE ss[1] \o sep \o Join(Tail(ss), sep)

UpperAlpha == Chars("ABCDEFGHIJKLMNOPQRSTUVWXYZ")

LowerAlpha == Chars("abcdefghijklmnopqrstuvwxyz")

LowerOf == [c \in {UpperAlpha[i] : i \in 1..26} |->
              LowerAlpha[CHOOSE i \in 1..26 : UpperAlpha[i] = c]]

toLowerChar(c) == IF c \in DOMAIN LowerOf THEN LowerOf[c] ELSE c

toLowerCase(s) == [i \in 1..Len(s) |-> toLowerChar(s[i])]

\* The characters the regular expression \s and String.prototype.trim match
\* (among the characters the model draws).
IsSpace(c) == c \in {" ", "\t", "\n", "\r"}

RECURSIVE trimStart(_)
trimStart(s) ==
  IF s # <<>> /\ IsSpace(Head(s)) THEN trimStart(Tail(s)) ELSE s

RECURSIVE trimEnd(_)
trimEnd(s) ==
  IF s # <<>> /\ IsSpace(s[Len(s)]) THEN trimEnd(SubSeq(s, 1, Len(s) - 1)) ELSE s

trim(s) == trimEnd(trimStart(s))

\* s.indexOf(c) for a single character, 0-based, -1 when absent.
indexOf(s, c) ==
  IF \E i \in 1..Len(s) : s[i] = c
  THEN (CHOOSE i \in 1..Len(s) : s[i] = c /\ \A j \in 1..(i - 1) : s[j] # c) - 1
  ELSE -1

\* s.substring(a, b) and s.substring(a), 0-based.
substring(s, a, b) == SubSeq(s, a + 1, b)

substringFrom(s, a) == SubSeq(s, a + 1, Len(s))

endsWith(s, suffix) ==
  /\ Len(s) >= Len(suffix)
  /\ SubSeq(s, Len(s) - Len(suffix) + 1, Len(s)) = suffix

\* s.split(c) for a single character c.
RECURSIVE split(_, _)
split(s, c) ==
  Bind(indexOf(s, c), LAMBDA i :
    IF i = -1 THEN <<s>>
    ELSE <<substring(s, 0, i)>> \o split(substringFrom(s, i + 1), c))

\* The 0-based index of the first white-space character of s, -1 if none.
indexOfSpace(s) ==
  IF \E i \in 1..Len(s) : IsSpace(s[i])
  THEN (CHOOSE i \in 1..Len(s) : IsSpace(s[i]) /\ \A j \in 1..(i - 1) : ~IsSpace(s[j])) - 1
  ELSE -1

\* s.split(/\s+/): a run of white space is one separator; leading or trailing
\* white space yields an empty first or last piece.
RECURSIVE splitSpace(_)
splitSpace(s) ==
  Bind(indexOfSpace(s), LAMBDA i :
    IF i = -1 THEN <<s>>
    ELSE <<substring(s, 0, i)>> \o splitSpace(trimStart(substringFrom(s, i))))

\* s.replace(/c/g, d) for single characters.
replaceChar(s, c, d) == [i \in 1..Len(s) |-> IF s[i] = c THEN d ELSE s[i]]

\* The 0-based index of the first place where a is followed by b, -1 if none.
indexOfPair(s, a, b) ==
  IF \E i \in 1..(Len(s) - 1) : s[i] = a /\ s[i + 1] = b
  THEN (CHOOSE i \in 1..(Len(s) - 1) :
          /\ s[i] = a /\ s[i + 1] = b
          /\ \A j \in 1..(i - 1) : ~(s[j] = a /\ s[j + 1] = b)) - 1
  ELSE -1

\* s.replace(/ab/g, with) for a two-character pattern.
RECURSIVE replacePair(_, _, _, _)
replacePair(s, a, b, with) ==
  Bind(indexOfPair(s, a, b), LAMBDA i :
    IF i = -1 THEN s
    ELSE substring(s, 0, i) \o with \o replacePair(substringFrom(s, i + 2), a, b, with))

-----------------------------------------------------------------------------
(* lib/util.js and lib/encoding.js: name syntax, FQDN form, small integers *)

MAX_DOMAIN_LENGTH == 256

MAX_LABEL_LENGTH == 63

Digits == Chars("0123456789")

HexDigits == Chars("0123456789abcdef")

IsDigit(c) == \E i \in 1..10 : Digits[i] = c

IsHexDigit(c) == \E i \in 1..16 : HexDigits[i] = c

RECURSIVE parseBase(_, _, _, _)
parseBase(s, table, base, acc) ==
  IF s = <<>> THEN acc
  ELSE parseBase(Tail(s), table, base, acc * base + indexOf(table, Head(s)))

\* util.isFQDN / util.fqdn: a name is fully qualified when it ends with a dot.
isFQDN(s) == s # <<>> /\ s[Len(s)] = "."

fqdn(s) == IF isFQDN(s) THEN s ELSE s \o <<".">>

\* util.isName: non-empty, at most MAX_DOMAIN_LENGTH characters, no empty
\* label (the root "." excepted), no label above MAX_LABEL_LENGTH characters.
isLabel(l) == l # <<>> /\ Len(l) <= MAX_LABEL_LENGTH

isName(s) ==
  /\ s # <<>>
  /\ Len(s) <= MAX_DOMAIN_LENGTH
  /\ \/ s = <<".">>
     \/ Bind(split(IF isFQDN(s) THEN SubSeq(s, 1, Len(s) - 1) ELSE s, "."),
             LAMBDA labels : \A i \in 1..Len(labels) : isLabel(labels[i]))

\* util.parseU8: a decimal number of one to three digits, at most 255; the
\* result is NULL when the code throws.
parseU8(s) ==
  IF /\ Len(s) \in 1..3
     /\ \A i \in 1..Len(s) : IsDigit(s[i])
     /\ parseBase(s, Digits, 10, 0) <= 255
  THEN Some(parseBase(s, Digits, 10, 0))
  ELSE NULL

min(a, b) == IF a < b THEN a ELSE b

-----------------------------------------------------------------------------
(* binet (IP): text <-> 16-byte addresses; encoding.reverse *)

RECURSIVE toDec(_)
toDec(n) == IF n < 10 THEN <<Digits[n + 1]>> ELSE toDec(n \div 10) \o <<Digits[(n % 10) + 1]>>

RECURSIVE toHex(_)
toHex(n) == IF n < 16 THEN <<HexDigits[n + 1]>> ELSE toHex(n \div 16) \o <<HexDigits[(n % 16) + 1]>>

parseOctet(s) ==
  IF /\ Len(s) \in 1..3
     /\ \A i \in 1..Len(s) : IsDigit(s[i])
     /\ parseBase(s, Digits, 10, 0) <= 255
  THEN parseBase(s, Digits, 10, 0)
  ELSE -1

\* Four decimal octets separated by dots; NULL when the text is not IPv4.
parseV4(s) ==
  Bind(split(s, "."), LAMBDA parts :
    IF Len(parts) = 4 /\ \A i \in 1..4 : parseOctet(parts[i]) >= 0
    THEN Some([i \in 1..4 |-> parseOctet(parts[i])])
    ELSE NULL)

parseGroup(s) ==
  Bind(toLowerCase(s), LAMBDA l :
    IF Len(l) \in 1..4 /\ \A i \in 1..Len(l) : IsHexDigit(l[i])
    THEN parseBase(l, HexDigits, 16, 0)
    ELSE -1)

\* The two 16-bit groups of four octets.
octetGroups(b) == <<b[1] * 256 + b[2], b[3] * 256 + b[4]>>

\* A group put before the groups that follow it, NULL when either is malformed.
consGroup(g, rest) == IF g < 0 \/ IsNull(rest) THEN NULL ELSE Some(<<g>> \o Val(rest))

\* The 16-bit groups of a colon-separated list whose last piece may be a
\* dotted IPv4 address (two groups); NULL when a piece is malformed.
RECURSIVE parseGroups(_)
parseGroups(parts) ==
  IF parts = <<>> THEN Some(<<>>)
  ELSE IF Len(parts) = 1 /\ ~IsNull(parseV4(parts[1]))
       THEN Some(octetGroups(Val(parseV4(parts[1]))))
       ELSE consGroup(parseGroup(Head(parts)), parseGroups(Tail(parts)))

colonList(s) == IF s = <<>> THEN <<>> ELSE split(s, ":")

\* The position (1-based) of the first "::" in s, 0 when there is none.
doubleColon(s) ==
  IF \E i \in 1..(Len(s) - 1) : s[i] = ":" /\ s[i + 1] = ":"
  THEN CHOOSE i \in 1..(Len(s) - 1) :
         /\ s[i] = ":" /\ s[i + 1] = ":"
         /\ \A j \in 1..(i - 1) : ~(s[j] = ":" /\ s[j + 1] = ":")
  ELSE 0

\* The groups left and right of "::" with the zero groups they stand for.
fillGroups(l, r) ==
  IF ~IsNull(l) /\ ~IsNull(r) /\ Len(Val(l)) + Len(Val(r)) <= 7
  THEN Some(Val(l) \o Rep(0, 8 - Len(Val(l)) - Len(Val(r))) \o Val(r))
  ELSE NULL

eightGroups(g) == IF ~IsNull(g) /\ Len(Val(g)) = 8 THEN g ELSE NULL

\* Eight 16-bit groups; NULL when the text is not IPv6.
parseV6(s) ==
  Bind(doubleColon(s), LAMBDA d :
    IF d = 0 THEN eightGroups(parseGroups(colonList(s)))
    ELSE fillGroups(parseGroups(colonList(SubSeq(s, 1, d - 1))),
                    parseGroups(colonList(SubSeq(s, d + 2, Len(s))))))

groupsToBytes(g) ==
  [i \in 1..16 |-> IF i % 2 = 1 THEN g[(i + 1) \div 2] \div 256 ELSE g[i \div 2] % 256]

\* IP.toBuffer: IPv4 is stored IPv4-mapped (::ffff:a.b.c.d); NULL when the
\* code throws.
mapped(v4) == Some(Rep(0, 10) \o <<255, 255>> \o Val(v4))

v6Bytes(g) == IF IsNull(g) THEN NULL ELSE Some(groupsToBytes(Val(g)))

toBuffer(s) ==
  Bind(parseV4(s), LAMBDA v4 : IF ~IsNull(v4) THEN mapped(v4) ELSE v6Bytes(parseV6(s)))

\* IP.isIPv4 of a 16-byte address.
isIPv4(raw) == (\A i \in 1..10 : raw[i] = 0) /\ raw[11] = 255 /\ raw[12] = 255

bytesToGroups(raw) == [i \in 1..8 |-> raw[2 * i - 1] * 256 + raw[2 * i]]

\* The length of the run of zero groups that starts at group i.
RECURSIVE zeroRun(_, _)
zeroRun(g, i) == IF i > 8 \/ g[i] # 0 THEN 0 ELSE 1 + zeroRun(g, i + 1)

\* The start of the first longest run of two or more zero groups, 0 if none.
bestRun(g) ==
  IF \E i \in 1..8 : zeroRun(g, i) >= 2
  THEN CHOOSE i \in 1..8 :
         /\ zeroRun(g, i) >= 2
         /\ \A j \in 1..8 : zeroRun(g, j) <= zeroRun(g, i)
         /\ \A j \in 1..(i - 1) : zeroRun(g, j) < zeroRun(g, i)
  ELSE 0

hexList(g, a, b) == Join([i \in 1..(b - a + 1) |-> toHex(g[a + i - 1])], <<":">>)

\* The text of eight groups whose zero run at z (0: none) is written "::".
v6Text(g, z) ==
  IF z = 0 THEN hexList(g, 1, 8)
  ELSE hexList(g, 1, z - 1) \o <<":", ":">> \o hexList(g, z + zeroRun(g, z), 8)

\* IP.toString: the canonical text of a 16-byte address.
toString(raw) ==
  IF isIPv4(raw)
  THEN Join([i \in 1..4 |-> toDec(raw[12 + i])], <<".">>)
  ELSE Bind(bytesToGroups(raw), LAMBDA g : v6Text(g, bestRun(g)))

\* IP.normalize: the canonical text of an address text; NULL when it throws.
normalize(s) ==
  Bind(toBuffer(s), LAMBDA raw : IF IsNull(raw) THEN NULL ELSE Some(toString(Val(raw))))

\* encoding.reverse: the reverse-lookup name of a canonical address text.
reverseOf(ip) ==
  IF isIPv4(ip)
  THEN toDec(ip[16]) \o <<".">> \o toDec(ip[15]) \o <<".">> \o toDec(ip[14])
       \o <<".">> \o toDec(ip[13]) \o Chars(".in-addr.arpa.")
  ELSE Concat([i \in 1..16 |->
                 toHex(ip[17 - i] % 16) \o <<".">> \o toHex(ip[17 - i] \div 16) \o <<".">>])
       \o Chars("ip6.arpa.")

reverse(addr) == reverseOf(Val(toBuffer(addr)))

count(s, c) == Cardinality({i \in 1..Len(s) : s[i] = c})

parsePort(s) ==
  IF /\ Len(s) \in 1..5
     /\ \A i \in 1..Len(s) : IsDigit(s[i])
     /\ parseBase(s, Digits, 10, 0) <= 65535
  THEN parseBase(s, Digits, 10, 0)
  ELSE -1

\* IP.fromHost(text, fallback): "[key@]host[:port]", with an IPv6 host in
\* brackets when a port follows.  type is 4, 6, or 0 for what is no address
\* (the caller rejects it just as it rejects a throw).
keyOf(text) ==
  Bind(indexOf(text, "@"), LAMBDA at :
    IF at = -1 THEN NULL ELSE Some(substring(text, 0, at)))

afterKey(text) ==
  Bind(indexOf(text, "@"), LAMBDA at :
    IF at = -1 THEN text ELSE substringFrom(text, at + 1))

bracketed(rest) == rest # <<>> /\ rest[1] = "[" /\ indexOf(rest, "]") # -1

hostOf(rest) ==
  IF bracketed(rest) THEN substring(rest, 1, indexOf(rest, "]"))
  ELSE IF count(rest, ":") = 1 THEN substring(rest, 0, indexOf(rest, ":"))
  ELSE rest

portText(rest) ==
  IF bracketed(rest) THEN substringFrom(rest, indexOf(rest, "]") + 1)
  ELSE IF count(rest, ":") = 1 THEN substringFrom(rest, indexOf(rest, ":"))
  ELSE <<>>

portOf(tail, fallback) ==
  IF tail = <<>> THEN fallback
  ELSE IF tail[1] = ":" THEN parsePort(Tail(tail))
  ELSE -1

typeOf(host, port) ==
  IF port < 0 THEN 0
  ELSE IF ~IsNull(parseV4(host)) THEN 4
  ELSE IF ~IsNull(parseV6(host)) THEN 6
  ELSE 0

hostnameOf(type, canon, port) ==
  IF type = 6 THEN <<"[">> \o canon \o <<"]", ":">> \o toDec(port)
  ELSE canon \o <<":">> \o toDec(port)

address(type, canon, port, key) ==
  [type |-> type, host |-> canon, port |-> port, key |-> key,
   hostname |-> IF type = 0 THEN canon ELSE hostnameOf(type, canon, port)]

typed(type, host, port, key) ==
  address(type, IF type = 0 THEN host ELSE toString(Val(toBuffer(host))), port, key)

parsed(host, port, key) == typed(typeOf(host, port), host, port, key)

fromHost(text, fallback) ==
  parsed(hostOf(afterKey(text)), portOf(portText(afterKey(text)), fallback), keyOf(text))

\* Map.prototype.set on a map held as a function.
mapSet(m, k, v) == [x \in (DOMAIN m) \cup {k} |-> IF x = k THEN v ELSE m[x]]

emptyMap == [x \in {} |-> NULL]

-----------------------------------------------------------------------------
(* lib/resolvconf.js: ResolvConf *)

MAX_SEARCH_TEXT == 256

MAX_SEARCH == 6

MAX_SORT == 10

MAX_DOTS == 15

MAX_TIMEOUT == 30

MAX_ATTEMPTS == 5

DNS_PORT == 53

GOOGLE_NS ==
  <<Chars("8.8.8.8"), Chars("8.8.4.4"),
    Chars("2001:4860:4860::8888"), Chars("2001:4860:4860::8844")>>

constructor ==
  [ns4 |-> <<>>, ns6 |-> <<>>, keys |-> emptyMap, domain |-> NULL, search |-> NULL,
   sortlist |-> <<>>, debug |-> FALSE, dots |-> 1, timeout |-> 5, attempts |-> 2,
   rotate |-> FALSE, checkNames |-> TRUE, inet6 |-> FALSE, byteString |-> FALSE,
   dotInt |-> FALSE, edns |-> FALSE, singleRequest |-> FALSE,
   singleRequestReopen |-> FALSE, tldQuery |-> TRUE, forceTCP |-> FALSE]

inject(this, obj) ==
  [ns4 |-> obj.ns4, ns6 |-> obj.ns6,
   keys |-> [k \in DOMAIN obj.keys |-> obj.keys[k]],
   domain |-> obj.domain, search |-> obj.search, sortlist |-> obj.sortlist,
   debug |-> obj.debug, dots |-> obj.dots, timeout |-> obj.timeout,
   attempts |-> obj.attempts, rotate |-> obj.rotate, checkNames |-> obj.checkNames,
   inet6 |-> obj.inet6, byteString |-> obj.byteString, dotInt |-> obj.dotInt,
   edns |-> obj.edns, singleRequest |-> obj.singleRequest,
   singleRequestReopen |-> obj.singleRequestReopen, tldQuery |-> obj.tldQuery,
   forceTCP |-> obj.forceTCP]

clone(this) == inject(constructor, this)

clear(this) ==
  [this EXCEPT !.ns4 = <<>>, !.ns6 = <<>>, !.keys = emptyMap, !.domain = NULL,
               !.search = NULL, !.sortlist = <<>>, !.debug = FALSE, !.dots = 1,
               !.timeout = 5, !.attempts = 2, !.rotate = FALSE, !.checkNames = TRUE,
               !.inet6 = FALSE, !.byteString = FALSE, !.dotInt = FALSE,
               !.edns = FALSE, !.singleRequest = FALSE,
               !.singleRequestReopen = FALSE, !.tldQuery = TRUE, !.forceTCP = FALSE]

getServers(this) ==
  [i \in 1..Len(this.ns4) |-> this.ns4[i].hostname]
  \o [i \in 1..Len(this.ns6) |-> this.ns6[i].hostname]

clearServers(this) == [this EXCEPT !.ns4 = <<>>, !.ns6 = <<>>, !.keys = emptyMap]

ok(st) == [st |-> st, err |-> FALSE]

throw(st) == [st |-> st, err |-> TRUE]

\* keys.set(addr.hostname, addr.key) when the address carries a key.
withKey(this, addr) ==
  IF IsNull(addr.key) THEN this
  ELSE [this EXCEPT !.keys = mapSet(this.keys, addr.hostname, Val(addr.key))]

\* Fault: addServer that stores an address of no known family as IPv4.
pushServerAny(this, addr) ==
  CASE addr.type = 6 -> ok(withKey([this EXCEPT !.ns6 = Append(this.ns6, addr)], addr))
    [] OTHER -> ok(withKey([this EXCEPT !.ns4 = Append(this.ns4, addr)], addr))

pushServer(this, addr) ==
  CASE addr.type = 4 -> ok(withKey([this EXCEPT !.ns4 = Append(this.ns4, addr)], addr))
    [] addr.type = 6 -> ok(withKey([this EXCEPT !.ns6 = Append(this.ns6, addr)], addr))
    [] OTHER -> throw(this)

addServer(this, server) == pushServer(this, fromHost(server, DNS_PORT))

RECURSIVE addServers(_, _)
addServers(this, servers) ==
  IF servers = <<>> THEN ok(this)
  ELSE Bind(addServer(this, Head(servers)), LAMBDA r :
         IF r.err THEN r ELSE addServers(r.st, Tail(servers)))

setServers(this, servers) == addServers(clearServers(this), servers)

\* Fault: setDomain that leaves search as it was.
setDomainKeepSearch(this, domain) ==
  IF ~isName(domain) THEN throw(this)
  ELSE ok([this EXCEPT !.domain = Some(fqdn(domain))])

setDomain(this, domain) ==
  IF ~isName(domain) THEN throw(this)
  ELSE ok([this EXCEPT !.search = NULL, !.domain = Some(fqdn(domain))])

\* Fault: the loop of setSearch with the limit tested one name too late.
RECURSIVE searchLoopLate(_, _)
searchLoopLate(this, names) ==
  IF names = <<>> THEN ok(this)
  ELSE IF ~isName(Head(names)) THEN searchLoopLate(this, Tail(names))
  ELSE IF Len(Val(this.search)) > MAX_SEARCH THEN throw(this)
  ELSE searchLoopLate([this EXCEPT !.search = Some(Append(Val(this.search), fqdn(Head(names))))],
                      Tail(names))

\* The loop of setSearch over the names not yet visited.
RECURSIVE searchLoop(_, _)
searchLoop(this, names) ==
  IF names = <<>> THEN ok(this)
  ELSE IF ~isName(Head(names)) THEN searchLoop(this, Tail(names))
  ELSE IF Len(Val(this.search)) = MAX_SEARCH THEN throw(this)
  ELSE searchLoop([this EXCEPT !.search = Some(Append(Val(this.search), fqdn(Head(names))))],
                  Tail(names))

setSearch(this, list) ==
  IF Len(list) > MAX_SEARCH_TEXT THEN throw(this)
  ELSE searchLoop([this EXCEPT !.domain = NULL, !.search = Some(<<>>)], splitSpace(list))

\* What setSort makes of the mask of a pair: none (null) and '' are kept as
\* they are, any other text is normalized; NULL stands for a throw.
sortMask(items) ==
  IF Len(items) > 1 /\ items[2] # <<>>
  THEN Bind(normalize(items[2]), LAMBDA m : IF IsNull(m) THEN NULL ELSE Some(m))
  ELSE IF Len(items) > 1 THEN Some(Some(<<>>))
  ELSE Some(NULL)

\* The {ip, mask} entry of one pair, NULL when normalizing throws.
sortEntry(ip, mask) ==
  IF IsNull(ip) \/ IsNull(mask) THEN NULL
  ELSE Some([ip |-> Val(ip), mask |-> Val(mask)])

sortPair(items) == sortEntry(normalize(items[1]), sortMask(items))

\* Fault: the loop of setSort without the test of the limit.
RECURSIVE sortLoopUnbounded(_, _)
sortLoopUnbounded(this, pairs) ==
  IF pairs = <<>> THEN ok(this)
  ELSE Bind(sortPair(split(Head(pairs), "/")), LAMBDA e :
         IF IsNull(e) THEN sortLoopUnbounded(this, Tail(pairs))
         ELSE sortLoopUnbounded([this EXCEPT !.sortlist = Append(this.sortlist, Val(e))],
                                Tail(pairs)))

\* The loop of setSort over the pairs not yet visited.
RECURSIVE sortLoop(_, _)
sortLoop(this, pairs) ==
  IF pairs = <<>> THEN ok(this)
  ELSE Bind(sortPair(split(Head(pairs), "/")), LAMBDA e :
         IF IsNull(e) THEN sortLoop(this, Tail(pairs))
         ELSE IF Len(this.sortlist) = MAX_SORT THEN throw(this)
         ELSE sortLoop([this EXCEPT !.sortlist = Append(this.sortlist, Val(e))],
                       Tail(pairs)))

setSort(this, list) == sortLoop(this, splitSpace(list))

\* Fault: a wrapper that lets the throw of its setter through.
rethrow(r) == r

\* try { return this.setter(...) } catch (e) { return this }: the call
\* returns, with the state the setter left.
tryCatch(r) == ok(r.st)

\* The parse* wrappers swallow what the setter throws.
parseServer(this, text) == tryCatch(addServer(this, toLowerCase(trim(text))))

parseDomain(this, text) == tryCatch(setDomain(this, toLowerCase(trim(text))))

parseSearch(this, text) == tryCatch(setSearch(this, toLowerCase(trim(text))))

parseSort(this, text) == tryCatch(setSort(this, toLowerCase(trim(text))))

\* The name and the argument parseOptions takes from one token: split at the
\* first colon; without a colon the name is assigned from arg, which is ''.
optionName(option) ==
  IF indexOf(option, ":") # -1 THEN substring(option, 0, indexOf(option, ":")) ELSE <<>>

optionArg(option) ==
  IF indexOf(option, ":") # -1 THEN substringFrom(option, indexOf(option, ":") + 1)
  ELSE <<>>

\* Fault: a numeric option stored as parsed, without the cap.
clampNone(max, arg, old) == IF IsNull(parseU8(arg)) THEN old ELSE Val(parseU8(arg))

\* A numeric option: the parsed argument capped at max; a throw of parseU8
\* leaves the field as it is.
clamp(max, arg, old) == IF IsNull(parseU8(arg)) THEN old ELSE min(max, Val(parseU8(arg)))

\* The switch of parseOptions on the name and the argument of one token.
switch(this, name, arg) ==
  CASE name = Chars("debug") -> [this EXCEPT !.debug = TRUE]
    [] name = Chars("ndots") -> [this EXCEPT !.dots = clamp(MAX_DOTS, arg, this.dots)]
    [] name = Chars("timeout") -> [this EXCEPT !.timeout = clamp(MAX_TIMEOUT, arg, this.timeout)]
    [] name = Chars("attempts") -> [this EXCEPT !.attempts = clamp(MAX_ATTEMPTS, arg, this.attempts)]
    [] name = Chars("rotate") -> [this EXCEPT !.rotate = TRUE]
    [] name = Chars("no-check-names") -> [this EXCEPT !.checkNames = FALSE]
    [] name = Chars("inet6") -> [this EXCEPT !.inet6 = TRUE]
    [] name = Chars("ip6-bytestring") -> [this EXCEPT !.byteString = TRUE]
    [] name = Chars("ip6-dotint") -> [this EXCEPT !.dotInt = TRUE]
    [] name = Chars("no-ip6-dotint") -> [this EXCEPT !.dotInt = FALSE]
    [] name = Chars("edns0") -> [this EXCEPT !.edns = TRUE]
    [] name = Chars("single-request") -> [this EXCEPT !.singleRequest = TRUE]
    [] name = Chars("single-request-reopen") -> [this EXCEPT !.singleRequestReopen = TRUE]
    [] name = Chars("no-tld-query") -> [this EXCEPT !.tldQuery = FALSE]
    [] name = Chars("use-vc") -> [this EXCEPT !.forceTCP = TRUE]
    [] OTHER -> this

applyOption(this, option) == switch(this, optionName(option), optionArg(option))

\* Fault: the loop ends at the first token that changes no field.
RECURSIVE optionsLoopStop(_, _)
optionsLoopStop(this, options) ==
  IF options = <<>> THEN this
  ELSE IF applyOption(this, Head(options)) = this THEN this
  ELSE optionsLoopStop(applyOption(this, Head(options)), Tail(options))

RECURSIVE optionsLoop(_, _)
optionsLoop(this, options) ==
  IF options = <<>> THEN this
  ELSE optionsLoop(applyOption(this, Head(options)), Tail(options))

parseOptions(this, line) == optionsLoop(this, splitSpace(toLowerCase(trim(line))))

\* The byte-order mark, one character of the text.
BOM == "<U+FEFF>"

\* What fromString does to the text before it splits it into lines.
stripBOM(text) == IF text # <<>> /\ text[1] = BOM THEN Tail(text) ELSE text

preprocess(text) ==
  replacePair(
    replaceChar(replacePair(replaceChar(stripBOM(text), "\t", " "), "\r", "\n", <<"\n">>),
                "\r", "\n"),
    "\\", "\n", <<>>)

\* The dispatch of fromString on the keyword and the rest of one line.
dispatch(this, option, rest) ==
  CASE option = Chars("nameserver") -> parseServer(this, rest).st
    [] option = Chars("domain") -> parseDomain(this, rest).st
    [] option = Chars("search") -> parseSearch(this, rest).st
    [] option = Chars("sortlist") -> parseSort(this, rest).st
    [] option = Chars("options") -> parseOptions(this, rest)
    [] OTHER -> this

\* One trimmed line of resolv.conf, i the index of its first space.
splitLine(this, line, i) ==
  IF line = <<>> THEN this
  ELSE IF line[1] = "#" \/ line[1] = ";" THEN this
  ELSE IF i = -1 THEN this
  ELSE dispatch(this, toLowerCase(substring(line, 0, i)), substringFrom(line, i + 1))

directive(this, chunk) ==
  Bind(trim(chunk), LAMBDA line : splitLine(this, line, indexOf(line, " ")))

RECURSIVE directives(_, _)
directives(this, chunks) ==
  IF chunks = <<>> THEN this
  ELSE directives(directive(this, Head(chunks)), Tail(chunks))

\* Fault: the directives are applied to what the object holds.
fromStringOver(this, text) == directives(this, split(preprocess(text), "\n"))

fromString(this, text) == directives(clear(this), split(preprocess(text), "\n"))

\* readEnv: env is <<LOCALDOMAIN, RES_OPTIONS>>, each NULL when unset; an
\* empty value is falsy and skipped like an unset one.
\* Fault: RES_OPTIONS is read only when LOCALDOMAIN is set.
envOptionsWithDomain(this, env) ==
  IF truthy(env[1]) /\ truthy(env[2]) THEN parseOptions(this, Val(env[2])) ELSE this

envOptions(this, env) ==
  IF truthy(env[2]) THEN parseOptions(this, Val(env[2])) ELSE this

readEnv(this, env) ==
  envOptions(IF truthy(env[1]) THEN parseDomain(this, Val(env[1])).st ELSE this, env)

\* util.randomItem(items): any element of a list that is not empty.
randomItem(items) == {items[i] : i \in 1..Len(items)}

\* Fault: an IPv6 server is returned whenever there is one.
randomServerAny(this, inet6) ==
  IF Len(this.ns6) > 0 THEN randomItem(this.ns6)
  ELSE IF Len(this.ns4) = 0 THEN {}
  ELSE randomItem(this.ns4)

\* The addresses randomServer can return; none when it throws
\* 'No servers available.'.
randomServer(this, inet6) ==
  IF inet6 /\ Len(this.ns6) > 0 THEN randomItem(this.ns6)
  ELSE IF Len(this.ns4) = 0 THEN {}
  ELSE randomItem(this.ns4)

\* process.platform decides whether there is a system file at all.
getSystem(platform) ==
  IF platform = "win32" THEN NULL ELSE Some(Chars("/etc/resolv.conf"))

setGoogle(this) == setServers(this, GOOGLE_NS)

setDefault(this) == setGoogle(this)

\* fs.readFileSync(file) and the awaited fs.readFile(file): disk is null when
\* the read fails, and holds the text of the file otherwise.  The read throws
\* before fromString has touched the object.
\* Fault: the object is reset before the read.
fromFileClear(this, disk) ==
  IF IsNull(disk) THEN throw(clear(this)) ELSE ok(fromString(this, Val(disk)))

fromFile(this, disk) ==
  IF IsNull(disk) THEN throw(this) ELSE ok(fromString(this, Val(disk)))

\* A run of fromSystem: the object's state, the methods called on it so far,
\* and whether one of them has thrown out of the run.  r is the result of the
\* next call; nothing is called after a throw.
called(run, name, r) ==
  IF run.err THEN run
  ELSE [st |-> r.st, calls |-> Append(run.calls, name), err |-> r.err]

\* this.clear(); this.setDefault(): the catch block and the else branch.
setDefaults(run) ==
  called(called(run, "clear", ok(clear(run.st))),
         "setDefault", setDefault(clear(run.st)))

\* try { this.fromFile(file) } catch (e) { ... }, and the same around the
\* awaited fromFileAsync(file).
tryFile(run, disk) ==
  IF fromFile(run.st, disk).err
    THEN setDefaults(called(run, "fromFile", ok(fromFile(run.st, disk).st)))
    ELSE called(run, "fromFile", fromFile(run.st, disk))

\* Fault: the environment is read a second time.
envTwice(run, env) ==
  called(called(run, "readEnv", ok(readEnv(run.st, env))),
         "readEnv", ok(readEnv(run.st, env)))

\* this.readEnv(); return this;
envLast(run, env) == called(run, "readEnv", ok(readEnv(run.st, env)))

\* const file = this.getSystem();
begin(this) == [st |-> this, calls |-> <<"getSystem">>, err |-> FALSE]

fromSystem(this, platform, disk, env) ==
  envLast(IF truthy(getSystem(platform))
            THEN tryFile(begin(this), disk)
            ELSE setDefaults(begin(this)),
          env)

\* fromSystemAsync without a system file has no await: it runs to its end in
\* the caller's turn.  With a file it stops at the await of the read.
fromSystemAsync(this, platform, env) ==
  IF truthy(getSystem(platform))
    THEN begin(this)
    ELSE fromSystem(this, platform, NULL, env)

\* The rest of fromSystemAsync, run when the read has settled.
resume(this, calls, disk, env) ==
  envLast(tryFile([st |-> this, calls |-> calls, err |-> FALSE], disk), env)

-----------------------------------------------------------------------------
(* lib/hosts.js: Hosts and HostEntry *)

HostEntry == [name |-> NULL, inet4 |-> NULL, inet6 |-> NULL, hostname |-> NULL]

Hosts_constructor == [map |-> emptyMap, rev |-> emptyMap]

\* Fault: clearHosts that leaves the reverse map as it was.
clearHostsForward(this) == [this EXCEPT !.map = emptyMap]

clearHosts(this) == [this EXCEPT !.map = emptyMap, !.rev = emptyMap]

Hosts_inject(this, obj) ==
  [clearHosts(this) EXCEPT !.map = [k \in DOMAIN obj.map |-> obj.map[k]],
                           !.rev = [k \in DOMAIN obj.rev |-> obj.rev[k]]]

Hosts_clone(this) == Hosts_inject(Hosts_constructor, this)

Hosts_clear(this) == clearHosts(this)

LOCALDOMAIN_SUFFIX == Chars(".localdomain.")

\* Fault: the suffix is cut off together with the dot before it.
stripDot(n) == IF endsWith(n, LOCALDOMAIN_SUFFIX) THEN SubSeq(n, 1, Len(n) - 13) ELSE n

\* name.slice(0, -12) of a name that ends with ".localdomain.": its first
\* dot stays.
stripLocal(n) == IF endsWith(n, LOCALDOMAIN_SUFFIX) THEN SubSeq(n, 1, Len(n) - 12) ELSE n

\* The name addHost stores an entry under: lower case, fully qualified,
\* without a trailing "localdomain.".
hostKey(name) == stripLocal(fqdn(toLowerCase(name)))

\* The hostname addHost validates and stores: null and '' as they are.
hostAlias(hostname) ==
  IF truthy(hostname) THEN Some(fqdn(toLowerCase(Val(hostname)))) ELSE hostname

\* Fault: the address is stored into a new entry, so the other family is lost.
assignNew(entry, n, ip, addr, hn) ==
  IF isIPv4(ip)
  THEN [HostEntry EXCEPT !.name = Some(n), !.inet4 = Some(addr), !.hostname = hn]
  ELSE [HostEntry EXCEPT !.name = Some(n), !.inet6 = Some(addr), !.hostname = hn]

\* The entry of name n after addr of raw address ip and hostname hn are stored.
assign(entry, n, ip, addr, hn) ==
  IF isIPv4(ip)
  THEN [entry EXCEPT !.name = Some(n), !.inet4 = Some(addr), !.hostname = hn]
  ELSE [entry EXCEPT !.name = Some(n), !.inet6 = Some(addr), !.hostname = hn]

entryOf(this, n) == IF n \in DOMAIN this.map THEN this.map[n] ELSE HostEntry

\* Fault: addHost that stores the entry and records no reverse key.
storeForward(this, n, ip, addr, hn) ==
  [this EXCEPT !.map = mapSet(this.map, n, assign(entryOf(this, n), n, ip, addr, hn))]

\* map.set(name, entry) and rev.set(rev, name).
store(this, n, ip, addr, hn) ==
  [this EXCEPT !.map = mapSet(this.map, n, assign(entryOf(this, n), n, ip, addr, hn)),
               !.rev = mapSet(this.rev, reverse(addr), n)]

storeHost(this, n, ip, hn) ==
  IF IsNull(ip) THEN throw(this)
  ELSE ok(store(this, n, Val(ip), toString(Val(ip)), hn))

addHost(this, name, host, hostname) ==
  IF ~isName(fqdn(toLowerCase(name))) THEN throw(this)
  ELSE IF truthy(hostname) /\ ~isName(Val(hostAlias(hostname))) THEN throw(this)
  ELSE storeHost(this, hostKey(name), toBuffer(host), hostAlias(hostname))

get(m, k) == IF k \in DOMAIN m THEN Some(m[k]) ELSE NULL

\* lookup: the entry found, NULL for undefined.
lookupKey(this, key) ==
  IF key \in DOMAIN this.rev THEN get(this.map, this.rev[key]) ELSE get(this.map, key)

\* Fault: lookup that takes the name as written.
lookupExact(this, name) == lookupKey(this, name)

lookup(this, name) == lookupKey(this, toLowerCase(name))

types == [A |-> 1, PTR |-> 12, TXT |-> 16, AAAA |-> 28, ANY |-> 255]

classes == [IN |-> 1]

\* new Record() with the fields query sets; data is the PTRRecord, ARecord
\* or AAAARecord.
Record(name, type, data) ==
  [name |-> name, class |-> classes.IN, ttl |-> 300, type |-> type, data |-> data]

\* The A record, when the type asks for it and the entry has the address.
answerA(entry, name, type) ==
  IF (type = types.A \/ type = types.ANY) /\ truthy(entry.inet4)
    THEN <<Record(name, types.A, [address |-> Val(entry.inet4)])>>
    ELSE <<>>

answerAAAA(entry, name, type) ==
  IF (type = types.AAAA \/ type = types.ANY) /\ truthy(entry.inet6)
    THEN <<Record(name, types.AAAA, [address |-> Val(entry.inet6)])>>
    ELSE <<>>

\* Fault: the AAAA record is left out of the answer.
answerFirst(entry, name, type) ==
  IF type = types.PTR
    THEN <<Record(name, types.PTR, [ptr |-> Val(entry.name)])>>
    ELSE answerA(entry, name, type)

answer(entry, name, type) ==
  IF type = types.PTR
    THEN <<Record(name, types.PTR, [ptr |-> Val(entry.name)])>>
    ELSE answerA(entry, name, type) \o answerAAAA(entry, name, type)

\* query: NULL, or the list of records.
query(this, name, type) ==
  IF IsNull(lookup(this, name)) THEN NULL
  ELSE Some(answer(Val(lookup(this, name)), name, type))

\* The loop of setHosts over the <<name, address>> items not yet visited.
RECURSIVE addHosts(_, _)
addHosts(this, items) ==
  IF items = <<>> THEN ok(this)
  ELSE Bind(addHost(this, Head(items)[1], Head(items)[2], NULL), LAMBDA r :
         IF r.err THEN r ELSE addHosts(r.st, Tail(items)))

setHosts(this, items) == addHosts(clearHosts(this), items)

LOCAL_HOSTS ==
  <<<<Chars("localhost"), Chars("127.0.0.1")>>, <<Chars("localhost"), Chars("::1")>>>>

\* Fault: setLocal that adds the loopback entry to what the maps hold.
setLocalKeep(this) == addHosts(this, LOCAL_HOSTS)

Hosts_setLocal(this) == addHosts(clearHosts(this), LOCAL_HOSTS)

\* The loop of fromString over the names of one line; a throw of addHost is
\* swallowed and the next name is tried.
RECURSIVE lineNames(_, _, _, _)
lineNames(this, ip, names, hostname) ==
  IF names = <<>> THEN this
  ELSE lineNames(addHost(this, Head(names), ip, hostname).st, ip, Tail(names), hostname)

\* Fault: every field after the address is taken as a name.
lineFieldsAll(this, parts) ==
  lineNames(this, parts[1], SubSeq(parts, 2, Len(parts)), NULL)

\* The fields of one line: the address, then the names; with more than two
\* fields the last one is popped as the hostname.
lineFields(this, parts) ==
  IF Len(parts) > 2
  THEN lineNames(this, parts[1], SubSeq(parts, 2, Len(parts) - 1), Some(parts[Len(parts)]))
  ELSE lineNames(this, parts[1], SubSeq(parts, 2, Len(parts)), NULL)

\* One trimmed line of a hosts file.
hostsFields(this, line) ==
  IF line = <<>> THEN this
  ELSE IF line[1] = "#" \/ line[1] = ";" THEN this
  ELSE lineFields(this, splitSpace(line))

hostsLine(this, chunk) == hostsFields(this, trim(chunk))

RECURSIVE hostsLines(_, _)
hostsLines(this, chunks) ==
  IF chunks = <<>> THEN this
  ELSE hostsLines(hostsLine(this, Head(chunks)), Tail(chunks))

Hosts_fromString(this, text) ==
  hostsLines(clearHosts(this), split(toLowerCase(preprocess(text)), "\n"))

\* fs.readFileSync(file) and the awaited fs.readFile(file): disk is null when
\* the read fails; the read throws before fromString has touched the maps.
\* Fault: the lines are added to what the maps hold.
Hosts_fromFileKeep(this, disk) ==
  IF IsNull(disk)
    THEN throw(this)
    ELSE ok(hostsLines(this, split(toLowerCase(preprocess(Val(disk))), "\n")))

Hosts_fromFile(this, disk) ==
  IF IsNull(disk) THEN throw(this) ELSE ok(Hosts_fromString(this, Val(disk)))

\* try { return this.fromFile(file) } catch (e) { return this.setLocal() };
\* in fromSystemAsync this is the part after the await.
Hosts_fromSystem(this, disk) ==
  IF Hosts_fromFile(this, disk).err
    THEN Hosts_setLocal(Hosts_fromFile(this, disk).st)
    ELSE Hosts_fromFile(this, disk)

-----------------------------------------------------------------------------
(* The inputs the operations are called with *)

MaxServers == 3

MaxAdds == 3

Lines(ss) == Concat([i \in 1..Len(ss) |-> Chars(ss[i]) \o <<"\n">>])

\* Six names of 42 characters with five spaces make 257 characters; with a
\* last name of 41 characters they make 256.
LongName(c) == Rep(c, 42)

Long257 ==
  Join(<<LongName("a"), LongName("b"), LongName("c"), LongName("d"), LongName("e"),
         LongName("f")>>, <<" ">>)

Long256 ==
  Join(<<LongName("a"), LongName("b"), LongName("c"), LongName("d"), LongName("e"),
         Rep("f", 41)>>, <<" ">>)

DomainInputs == {Chars("Test"), Chars("a.b."), Chars("a..b"), Chars(" lan ")}

SearchInputs ==
  {Chars("n1 n2 n3 n4 n5 n6"),
   Chars("n1 n2 n3 n4 n5 n6 n7"),
   Chars("n1 a..b N2 n3\tn4 c..d  n5 n6."),
   Chars("m1 a..b m2 m3 m4 c..d m5 m6 m7 m8"),
   Chars("x.y"),
   Chars("a..b"),
   Long256,
   Long257}

SortInputs ==
  {Chars("bad 1.2.3.4/x 10.0.0.0/255.0.0.0 ::0001 9.9.9.9/ /8"),
   Join(Rep(Chars("7.7.7.7/255.255.255.0"), 11), <<" ">>)}

EnvInputs ==
  {<<NULL, NULL>>,
   <<Some(Chars("Test.")), NULL>>,
   <<Some(Chars("a..b")), Some(Chars("ndots:3"))>>,
   <<Some(<<>>), Some(<<>>)>>}

SearchTexts ==
  {Lines(<<"domain Example.COM", "search a b">>),
   Lines(<<"search a b c d e f g", "# search z", "domain a..b", "foo bar">>),
   Lines(<<"search a b", "domain lan">>)}

CapSearchInputs ==
  {Chars("n1 n2 n3 n4 n5 n6"),
   Chars("m1 a..b m2 m3 m4 c..d m5 m6 m7 m8")}

CapTexts ==
  {Lines(<<"sortlist 1.1.1.1 2.2.2.2 3.3.3.3 4.4.4.4 5.5.5.5 6.6.6.6",
           "sortlist 7.7.7.7 8.8.8.8 bad 9.9.9.9 10.10.10.10 11.11.11.11",
           "SORTLIST 12.12.12.12">>),
   Lines(<<"search a b c d", "search a b c d e f g h", "sortlist 1.1.1.1/255.0.0.0">>)}

\* The bare flags of the options table.
FlagInputs ==
  {Chars("debug"), Chars("rotate"), Chars("no-check-names"), Chars("inet6"),
   Chars("ip6-bytestring"), Chars("ip6-dotint"), Chars("no-ip6-dotint"), Chars("edns0"),
   Chars("single-request"), Chars("single-request-reopen"), Chars("no-tld-query"),
   Chars("use-vc")}

NumericNames == {Chars("ndots"), Chars("timeout"), Chars("attempts")}

\* Values on both sides of each cap, and the largest parseU8 takes.
NumericValues == {0, 5, 6, 15, 16, 30, 31, 255}

NumericToken(name, n) == name \o <<":">> \o toDec(n)

NumericInputs == {NumericToken(name, n) : name \in NumericNames, n \in NumericValues}

OptionInputs ==
  FlagInputs \cup NumericInputs \cup
  {Chars("ndots:20 attempts:9"),
   Chars("ndots:256 timeout: attempts:x1 ndots"),
   Chars(" Debug:\tROTATE:1 ")}

OptionTexts ==
  {Lines(<<"options ndots:20 attempts:9", "options timeout:31">>),
   Lines(<<"options rotate", "OPTIONS ndots:3 timeout:-1", "options attempts:">>)}

OptionEnvs ==
  {<<NULL, NULL>>,
   <<NULL, Some(Chars("ndots:16"))>>,
   <<Some(Chars("lan")), Some(Chars("attempts:255 timeout:255"))>>}

\* Texts of resolv.conf with the servers their valid nameserver lines name,
\* the IPv4 ones first.
ServerCases ==
  <<[text |-> Lines(<<"nameserver bad", "nameserver 8.8.8.8">>),
     servers |-> <<Chars("8.8.8.8:53")>>],
    [text |-> Lines(<<"nameserver 2001:4860:4860:0:0:0:0:8888", "# nameserver 9.9.9.9",
                      "NameServer  1.2.3.4 ", "domain lan", "nameserver",
                      "nameserver 1.2.3", "nameservers 4.4.4.4">>),
     servers |-> <<Chars("1.2.3.4:53"), Chars("[2001:4860:4860::8888]:53")>>],
    [text |-> <<BOM>> \o Chars("nameserver\t10.0.0.1\r\nnameserver 999.1.1.1\rnameserver 10.0.\\\n0.2\n;x"),
     servers |-> <<Chars("10.0.0.1:53"), Chars("10.0.0.2:53")>>],
    [text |-> Lines(<<"search a b", "options ndots:2", "nameserver ::g">>),
     servers |-> <<>>]>>

ServerTexts == {ServerCases[i].text : i \in DOMAIN ServerCases}

ServerInputs == {Chars("8.8.4.4"), Chars(" 0:0:0:0:0:0:0:1 "), Chars("bad")}

ServerLists == {GOOGLE_NS, <<Chars("9.9.9.9"), Chars("bad"), Chars("1.1.1.1")>>}

\* <<name, address>> pairs for addHost: names without a trailing dot, in mixed
\* case, under localdomain, a name that is the reverse key of an address, and
\* a name and an address that addHost rejects.
HostInputs ==
  {<<Chars("a"), Chars("1.2.3.4")>>,
   <<Chars("a"), Chars("5.6.7.8")>>,
   <<Chars("B.c."), Chars("1.2.3.4")>>,
   <<Chars("B.c."), Chars("0:0:0:0:0:0:0:1")>>,
   <<Chars("d.localdomain"), Chars("5.6.7.8")>>,
   <<Chars("4.3.2.1.in-addr.arpa."), Chars("5.6.7.8")>>,
   <<Chars("a..b"), Chars("1.2.3.4")>>,
   <<Chars("a"), Chars("bad")>>}

HostLists ==
  {<<<<Chars("x"), Chars("9.9.9.9")>>, <<Chars("y."), Chars("9.9.9.9")>>>>,
   <<<<Chars("x"), Chars("1.2.3.4")>>, <<Chars("a..b"), Chars("5.6.7.8")>>,
     <<Chars("z"), Chars("5.6.7.8")>>>>}

HostTexts ==
  {Lines(<<"127.0.0.1 LocalHost localhost.localdomain", "::1 ip6-localhost ip6-loopback",
           "# comment", "bad x", "1.2.3.4 a..b good", "5.6.7.8 x y a..b">>),
   Lines(<<"1.2.3.4 a", "5.6.7.8\ta\tb alias">>)}

-----------------------------------------------------------------------------
(* ResolvConf: one action per operation *)

Call(op, arg, raised) == [op |-> op, arg |-> arg, raised |-> raised]

HostsIdle == UNCHANGED <<hosts, hlast, added, hloading>>

ConfIdle == UNCHANGED <<rc, last, loading, orig>>

\* orig is the object clone() was called on, for as long as it is kept next
\* to its copy rc, and whether the two search fields are one array.  A method
\* that assigns the copy's search field ends the sharing.
Assigned(cond) ==
  orig' = IF ~IsNull(orig) /\ cond
            THEN Some([Val(orig) EXCEPT !.shared = FALSE])
            ELSE orig

\* A setter that throws leaves the state it had reached; raised records the throw.
SetDomain(inputs) ==
  \E domain \in inputs :
    /\ rc' = setDomain(rc, domain).st
    /\ last' = Call("setDomain", domain, setDomain(rc, domain).err)
    /\ HostsIdle /\ UNCHANGED loading /\ Assigned(~setDomain(rc, domain).err)

SetSearch(inputs) ==
  \E list \in inputs :
    /\ rc' = setSearch(rc, list).st
    /\ last' = Call("setSearch", list, setSearch(rc, list).err)
    /\ HostsIdle /\ UNCHANGED loading /\ Assigned(Len(list) <= MAX_SEARCH_TEXT)

SetSort(inputs) ==
  \E list \in inputs :
    /\ rc' = setSort(rc, list).st
    /\ last' = Call("setSort", list, setSort(rc, list).err)
    /\ HostsIdle /\ UNCHANGED <<loading, orig>>

ParseDomain(inputs) ==
  \E text \in inputs :
    /\ rc' = parseDomain(rc, text).st
    /\ last' = Call("parseDomain", text, parseDomain(rc, text).err)
    /\ HostsIdle /\ UNCHANGED loading /\ Assigned(~setDomain(rc, toLowerCase(trim(text))).err)

ParseSearch(inputs) ==
  \E text \in inputs :
    /\ rc' = parseSearch(rc, text).st
    /\ last' = Call("parseSearch", text, parseSearch(rc, text).err)
    /\ HostsIdle /\ UNCHANGED loading /\ Assigned(Len(toLowerCase(trim(text))) <= MAX_SEARCH_TEXT)

ParseSort(inputs) ==
  \E text \in inputs :
    /\ rc' = parseSort(rc, text).st
    /\ last' = Call("parseSort", text, parseSort(rc, text).err)
    /\ HostsIdle /\ UNCHANGED <<loading, orig>>

ParseOptions(inputs) ==
  \E line \in inputs :
    rc' = parseOptions(rc, line) /\ last' = Call("parseOptions", line, FALSE) /\ HostsIdle /\ UNCHANGED <<loading, orig>>

FromString(inputs) ==
  \E text \in inputs :
    rc' = fromString(rc, text) /\ last' = Call("fromString", text, FALSE) /\ HostsIdle /\ UNCHANGED loading /\ Assigned(TRUE)

ReadEnv(inputs) ==
  \E env \in inputs :
    rc' = readEnv(rc, env) /\ last' = Call("readEnv", env, FALSE) /\ HostsIdle /\ UNCHANGED loading /\ Assigned(truthy(env[1]) /\ ~setDomain(rc, toLowerCase(trim(Val(env[1])))).err)

Clear ==
  rc' = clear(rc) /\ last' = Call("clear", <<>>, FALSE) /\ HostsIdle /\ UNCHANGED loading /\ Assigned(TRUE)

\* clone(): the copy is the object the later operations are applied to.
Clone ==
  rc' = clone(rc) /\ last' = Call("clone", <<>>, FALSE) /\ HostsIdle /\ UNCHANGED loading /\ orig' = NULL

Init ==
  /\ rc = constructor
  /\ last = Call("constructor", <<>>, FALSE)
  /\ hosts = Hosts_constructor
  /\ hlast = Call("constructor", <<>>, FALSE)
  /\ added = <<>>
  /\ loading = <<>>
  /\ orig = NULL
  /\ hloading = <<>>

\* The operations that read or write domain and search.
NextSearch ==
  \/ SetDomain(DomainInputs)
  \/ ParseDomain(DomainInputs)
  \/ SetSearch(SearchInputs)
  \/ ParseSearch(SearchInputs)
  \/ FromString(SearchTexts)
  \/ ReadEnv(EnvInputs)
  \/ Clear
  \/ Clone

SpecSearch == Init /\ [][NextSearch]_vars

\* The operations that add to sortlist and search.
NextCaps ==
  \/ SetSort(SortInputs)
  \/ ParseSort(SortInputs)
  \/ SetSearch(CapSearchInputs)
  \/ ParseSearch(CapSearchInputs)
  \/ FromString(CapTexts)
  \/ Clear
  \/ Clone

SpecCaps == Init /\ [][NextCaps]_vars

\* The operations that read options.
NextOptions ==
  \/ ParseOptions(OptionInputs)
  \/ FromString(OptionTexts)
  \/ ReadEnv(OptionEnvs)
  \/ Clear

SpecOptions == Init /\ [][NextOptions]_vars

serverCount(this) == Len(this.ns4) + Len(this.ns6)

AddServer(inputs) ==
  /\ serverCount(rc) < MaxServers
  /\ \E server \in inputs :
       /\ rc' = addServer(rc, server).st
       /\ last' = Call("addServer", server, addServer(rc, server).err)
       /\ HostsIdle /\ UNCHANGED <<loading, orig>>

ParseServer(inputs) ==
  /\ serverCount(rc) < MaxServers
  /\ \E text \in inputs :
       /\ rc' = parseServer(rc, text).st
       /\ last' = Call("parseServer", text, parseServer(rc, text).err)
       /\ HostsIdle /\ UNCHANGED <<loading, orig>>

SetServers(inputs) ==
  \E servers \in inputs :
    /\ rc' = setServers(rc, servers).st
    /\ last' = Call("setServers", servers, setServers(rc, servers).err)
    /\ HostsIdle /\ UNCHANGED <<loading, orig>>

\* The operations that add and remove servers.
NextServers ==
  \/ AddServer(ServerInputs)
  \/ ParseServer(ServerInputs)
  \/ SetServers(ServerLists)
  \/ FromString(ServerTexts)
  \/ Clear

SpecServers == Init /\ [][NextServers]_vars

SetterDomains == {Chars("a..b"), Chars(" Lan ")}

SetterServers == {Chars("bad"), Chars(" 8.8.4.4")}

\* The setters that throw and the wrappers that do not, on the same inputs.
NextSetters ==
  \/ ParseServer(SetterServers)
  \/ SetServers(ServerLists)
  \/ ParseDomain(SetterDomains)
  \/ SetSearch(CapSearchInputs)
  \/ ParseSearch(CapSearchInputs)
  \/ SetSort(SortInputs)
  \/ ParseSort(SortInputs)
  \/ Clear

SpecSetters == Init /\ [][NextSetters]_vars

RandomServer ==
  \E inet6 \in BOOLEAN :
    /\ rc' = rc
    /\ IF randomServer(rc, inet6) = {}
         THEN last' = [op |-> "randomServer", arg |-> inet6, raised |-> TRUE,
                       result |-> NULL]
         ELSE \E addr \in randomServer(rc, inet6) :
                last' = [op |-> "randomServer", arg |-> inet6, raised |-> FALSE,
                         result |-> Some(addr)]
    /\ HostsIdle /\ UNCHANGED <<loading, orig>>

RandomInputs == {Chars("8.8.4.4"), Chars("9.9.9.9"), Chars("::1"), Chars("bad")}

\* Choosing a server among those configured so far.
NextRandom ==
  \/ ParseServer(RandomInputs)
  \/ SetServers({GOOGLE_NS})
  \/ RandomServer
  \/ Clear

SpecRandom == Init /\ [][NextRandom]_vars

Platforms == {"linux", "win32"}

\* What the read of /etc/resolv.conf yields: a failure, a file with a
\* nameserver line, and a readable file without one.
Disks ==
  {NULL,
   Some(Lines(<<"nameserver 9.9.9.9", "domain lan", "options ndots:2">>)),
   Some(Lines(<<"search lan", "nameserver bad">>))}

\* LOCALDOMAIN and RES_OPTIONS.
SystemEnvs ==
  {<<NULL, NULL>>, <<Some(Chars("test.")), NULL>>, <<NULL, Some(Chars("ndots:3"))>>}

System(platform, disk, env) == [platform |-> platform, disk |-> disk, env |-> env]

Ran(op, arg, run) ==
  [op |-> op, arg |-> arg, raised |-> run.err, calls |-> run.calls]

FromSystem ==
  \E platform \in Platforms : \E disk \in Disks : \E env \in SystemEnvs :
    /\ rc' = fromSystem(rc, platform, disk, env).st
    /\ last' = Ran("fromSystem", System(platform, disk, env),
                   fromSystem(rc, platform, disk, env))
    /\ HostsIdle /\ UNCHANGED loading /\ Assigned(TRUE)

\* Reads in flight at a time, on the two objects together.
MaxLoads == 2

\* loading and hloading hold the asynchronous loads whose read is in flight,
\* in the order of their calls; a read may settle before one started earlier.
without(pending, i) == SubSeq(pending, 1, i - 1) \o SubSeq(pending, i + 1, Len(pending))

\* The caller's turn of fromSystemAsync: without a system file the call is
\* over, with one the read is in flight.
FromSystemAsync(platforms, envs) ==
  \E platform \in platforms : \E env \in envs :
    /\ Len(loading) + Len(hloading) < MaxLoads
    /\ rc' = fromSystemAsync(rc, platform, env).st
    /\ IF truthy(getSystem(platform))
         THEN /\ loading' = Append(loading,
                              [op |-> "fromSystemAsync",
                               calls |-> fromSystemAsync(rc, platform, env).calls])
              /\ last' = last
         ELSE /\ loading' = loading
              /\ last' = Ran("fromSystemAsync", System(platform, NULL, env),
                             fromSystemAsync(rc, platform, env))
    /\ HostsIdle /\ Assigned(~truthy(getSystem(platform)))

\* The read settles and fromSystemAsync runs to its end.
FromSystemResume(disks, envs) ==
  \E i \in 1..Len(loading) : \E disk \in disks : \E env \in envs :
    /\ loading[i].op = "fromSystemAsync"
    /\ rc' = resume(rc, loading[i].calls, disk, env).st
    /\ last' = Ran("fromSystemAsync", System("linux", disk, env),
                   resume(rc, loading[i].calls, disk, env))
    /\ loading' = without(loading, i)
    /\ HostsIdle /\ Assigned(TRUE)

\* fromFile(file) with the file read in the same turn.
FromFile(disks) ==
  \E disk \in disks :
    /\ rc' = fromFile(rc, disk).st
    /\ last' = Call("fromFile", disk, fromFile(rc, disk).err)
    /\ HostsIdle /\ UNCHANGED loading /\ Assigned(~fromFile(rc, disk).err)

\* The caller's turn of fromFileAsync ends at the await of the read.
FromFileAsync ==
  /\ Len(loading) + Len(hloading) < MaxLoads
  /\ loading' = Append(loading, [op |-> "fromFileAsync", calls |-> <<>>])
  /\ UNCHANGED <<rc, last, orig>> /\ HostsIdle

\* The read settles: fromFileAsync throws, or calls fromString and returns.
FromFileResume(disks) ==
  \E i \in 1..Len(loading) : \E disk \in disks :
    /\ loading[i].op = "fromFileAsync"
    /\ rc' = fromFile(rc, disk).st
    /\ last' = Call("fromFileAsync", disk, fromFile(rc, disk).err)
    /\ loading' = without(loading, i)
    /\ HostsIdle /\ Assigned(~fromFile(rc, disk).err)

\* Loading the system configuration over whatever the object held, with
\* other calls between the two turns of the asynchronous load.
NextSystem ==
  \/ FromSystem
  \/ FromSystemAsync(Platforms, SystemEnvs)
  \/ FromSystemResume(Disks, SystemEnvs)
  \/ SetDomain(SetterDomains)
  \/ ParseOptions({Chars("rotate")})

SpecSystem == Init /\ [][NextSystem]_vars

MaxPushed == 2

Sides == {"copy", "original"}

Pushes ==
  {<<"search", Chars("y.")>>,
   <<"sortlist", [ip |-> Chars("1.2.3.4"), mask |-> NULL]>>}

\* obj.search.push(x) and obj.sortlist.push(x): a write into the array the
\* field refers to.
push(obj, field, x) ==
  IF field = "search"
    THEN [obj EXCEPT !.search = Some(Append(Val(obj.search), x))]
    ELSE [obj EXCEPT !.sortlist = Append(obj.sortlist, x)]

\* Whether the write can be made: the field refers to an array, which is
\* still short.
pushable(obj, field) ==
  IF field = "search"
    THEN ~IsNull(obj.search) /\ Len(Val(obj.search)) < MaxPushed
    ELSE Len(obj.sortlist) < MaxPushed

\* The object on the other side of a write: inject gave the copy its own
\* sortlist (obj.sortlist.slice()) and the original's search (obj.search).
reached(other, shared, field, x) ==
  IF field = "search" /\ shared THEN push(other, field, x) ELSE other

\* const copy = rc.clone(), with both objects kept.
CloneKeep ==
  /\ rc' = clone(rc)
  /\ orig' = Some([st |-> rc, shared |-> ~IsNull(rc.search)])
  /\ last' = Call("clone", <<>>, FALSE)
  /\ HostsIdle /\ UNCHANGED loading

\* A write into search or sortlist of the copy or of the original.
Push ==
  \E side \in Sides : \E item \in Pushes :
    /\ ~IsNull(orig)
    /\ pushable(IF side = "copy" THEN rc ELSE Val(orig).st, item[1])
    /\ rc' = IF side = "copy" THEN push(rc, item[1], item[2])
             ELSE reached(rc, Val(orig).shared, item[1], item[2])
    /\ orig' = Some([st |-> IF side = "copy"
                              THEN reached(Val(orig).st, Val(orig).shared, item[1], item[2])
                              ELSE push(Val(orig).st, item[1], item[2]),
                     shared |-> Val(orig).shared])
    /\ last' = Call("push", <<side, item[1]>>, FALSE)
    /\ HostsIdle /\ UNCHANGED loading

CloneSearches == {Chars("x.y"), Chars("a..b")}

\* An object, its clone, and calls and writes on the two.
NextClone ==
  \/ CloneKeep
  \/ Push
  \/ SetSearch(CloneSearches)
  \/ Clear

SpecClone == Init /\ [][NextClone]_vars

-----------------------------------------------------------------------------
(* Hosts: one action per operation *)

\* The pair a successful addHost(name, host) stored: the key of the forward
\* map and the canonical text of the address.
pairOf(item) == <<hostKey(item[1]), toString(Val(toBuffer(item[2])))>>

\* added holds the pairs stored by the addHost calls made since the maps
\* were last rebuilt.
AddHost(inputs) ==
  /\ Len(added) < MaxAdds
  /\ \E item \in inputs :
       /\ hosts' = addHost(hosts, item[1], item[2], NULL).st
       /\ hlast' = Call("addHost", item, addHost(hosts, item[1], item[2], NULL).err)
       /\ added' = IF addHost(hosts, item[1], item[2], NULL).err THEN added
                   ELSE Append(added, pairOf(item))
       /\ ConfIdle /\ UNCHANGED hloading

SetHosts(inputs) ==
  \E items \in inputs :
    /\ hosts' = setHosts(hosts, items).st
    /\ hlast' = Call("setHosts", items, setHosts(hosts, items).err)
    /\ added' = <<>>
    /\ ConfIdle /\ UNCHANGED hloading

SetLocal ==
  /\ hosts' = Hosts_setLocal(hosts).st
  /\ hlast' = Call("setLocal", <<>>, Hosts_setLocal(hosts).err)
  /\ added' = <<>>
  /\ ConfIdle /\ UNCHANGED hloading

HostsClear ==
  /\ hosts' = Hosts_clear(hosts)
  /\ hlast' = Call("clear", <<>>, FALSE)
  /\ added' = <<>>
  /\ ConfIdle /\ UNCHANGED hloading

HostsFromString(inputs) ==
  \E text \in inputs :
    /\ hosts' = Hosts_fromString(hosts, text)
    /\ hlast' = Call("fromString", text, FALSE)
    /\ added' = <<>>
    /\ ConfIdle /\ UNCHANGED hloading

\* clone(): the copy is the object the later operations are applied to.
HostsClone ==
  hosts' = Hosts_clone(hosts) /\ hlast' = Call("clone", <<>>, FALSE)
  /\ UNCHANGED added /\ ConfIdle /\ UNCHANGED hloading

NextHosts ==
  \/ AddHost(HostInputs)
  \/ SetHosts(HostLists)
  \/ SetLocal
  \/ HostsClear
  \/ HostsFromString(HostTexts)
  \/ HostsClone

SpecHosts == Init /\ [][NextHosts]_vars

QueryHosts ==
  {<<Chars("a"), Chars("1.2.3.4")>>, <<Chars("a"), Chars("::1")>>,
   <<Chars("B.c."), Chars("5.6.7.8")>>, <<Chars("a"), Chars("bad")>>}

QueryNames ==
  {Chars("A."), Chars("a"), Chars("b.c."), Chars("4.3.2.1.in-addr.ARPA."),
   Chars("localhost.")}

QueryTypes == {types.A, types.PTR, types.TXT, types.AAAA, types.ANY}

Query ==
  \E name \in QueryNames : \E type \in QueryTypes :
    /\ hlast' = [op |-> "query", arg |-> <<name, type>>, raised |-> FALSE,
                 result |-> query(hosts, name, type)]
    /\ UNCHANGED <<hosts, added>>
    /\ ConfIdle /\ UNCHANGED hloading

\* Queries against entries added one at a time.
NextQuery ==
  \/ AddHost(QueryHosts)
  \/ SetLocal
  \/ HostsClear
  \/ Query

SpecQuery == Init /\ [][NextQuery]_vars

\* What the read of the system hosts file yields.
HostDisks == {NULL} \cup {Some(text) : text \in HostTexts}

LoadInputs ==
  {<<Chars("a"), Chars("1.2.3.4")>>, <<Chars("localhost"), Chars("5.6.7.8")>>,
   <<Chars("a"), Chars("bad")>>}

HostsFromSystem ==
  \E disk \in HostDisks :
    /\ hosts' = Hosts_fromSystem(hosts, disk).st
    /\ hlast' = Call("fromSystem", disk, Hosts_fromSystem(hosts, disk).err)
    /\ added' = <<>>
    /\ ConfIdle /\ UNCHANGED hloading

\* The caller's turn of fromSystemAsync ends at the await of the read.
HostsFromSystemAsync ==
  /\ Len(loading) + Len(hloading) < MaxLoads
  /\ hloading' = Append(hloading, "fromSystemAsync")
  /\ UNCHANGED <<hosts, hlast, added>> /\ ConfIdle

\* The read settles and fromSystemAsync runs to its end.
HostsFromSystemResume(disks) ==
  \E i \in 1..Len(hloading) : \E disk \in disks :
    /\ hloading[i] = "fromSystemAsync"
    /\ hosts' = Hosts_fromSystem(hosts, disk).st
    /\ hlast' = Call("fromSystemAsync", disk, Hosts_fromSystem(hosts, disk).err)
    /\ added' = <<>>
    /\ hloading' = without(hloading, i)
    /\ ConfIdle

\* fromFile(file) with the file read in the same turn.  A rebuild empties
\* added; a failed read rebuilds nothing.
HostsFromFile(disks) ==
  \E disk \in disks :
    /\ hosts' = Hosts_fromFile(hosts, disk).st
    /\ hlast' = Call("fromFile", disk, Hosts_fromFile(hosts, disk).err)
    /\ added' = IF Hosts_fromFile(hosts, disk).err THEN added ELSE <<>>
    /\ ConfIdle /\ UNCHANGED hloading

\* The caller's turn of fromFileAsync ends at the await of the read.
HostsFromFileAsync ==
  /\ Len(loading) + Len(hloading) < MaxLoads
  /\ hloading' = Append(hloading, "fromFileAsync")
  /\ UNCHANGED <<hosts, hlast, added>> /\ ConfIdle

\* The read settles: fromFileAsync throws, or calls fromString and returns.
HostsFromFileResume(disks) ==
  \E i \in 1..Len(hloading) : \E disk \in disks :
    /\ hloading[i] = "fromFileAsync"
    /\ hosts' = Hosts_fromFile(hosts, disk).st
    /\ hlast' = Call("fromFileAsync", disk, Hosts_fromFile(hosts, disk).err)
    /\ added' = IF Hosts_fromFile(hosts, disk).err THEN added ELSE <<>>
    /\ hloading' = without(hloading, i)
    /\ ConfIdle

\* Loading the system hosts file over whatever the maps held, with other
\* calls between the two turns of the asynchronous load.
NextLoad ==
  \/ HostsFromSystem
  \/ HostsFromSystemAsync
  \/ HostsFromSystemResume(HostDisks)
  \/ AddHost(LoadInputs)
  \/ SetHosts(HostLists)

SpecLoad == Init /\ [][NextLoad]_vars

KeyInputs ==
  {<<Chars("D.LocalDomain"), Chars("5.6.7.8")>>,
   <<Chars("e.localdomain.localdomain"), Chars("9.9.9.9")>>,
   <<Chars("B.c."), Chars("0:0:0:0:0:0:0:1")>>,
   <<Chars("LocalDomain"), Chars("1.2.3.4")>>,
   <<Chars("a..b"), Chars("1.2.3.4")>>}

\* Every operation that writes the forward map.
NextKeys ==
  \/ AddHost(KeyInputs)
  \/ SetHosts(HostLists)
  \/ SetLocal
  \/ HostsClear
  \/ HostsFromString(HostTexts)
  \/ HostsFromSystem
  \/ HostsClone

SpecKeys == Init /\ [][NextKeys]_vars

\* Hosts files of one line: an address and one, two or three names.
LineTexts ==
  {Chars("1.2.3.4 Solo"),
   Chars("::1 x y.localdomain"),
   Chars("  5.6.7.8\tOne  two.b \tALIAS "),
   Chars("9.9.9.9 a a"),
   Chars("9.9.9.9 a b a..b")}

ParseTexts ==
  {Lines(<<"nameserver 9.9.9.9", "search a b", "sortlist 10.0.0.0/255.0.0.0",
           "options ndots:3 rotate:">>),
   Lines(<<"domain lan", "nameserver ::1", "options attempts:4">>),
   <<>>}

\* Both parsers, each over whatever its object held.
NextParse ==
  \/ HostsFromString(LineTexts \cup HostTexts)
  \/ SetLocal
  \/ HostsClear
  \/ FromString(ParseTexts)
  \/ SetDomain(SetterDomains)
  \/ ParseOptions({Chars("debug: timeout:9")})

SpecParse == Init /\ [][NextParse]_vars

EnvCases ==
  EnvInputs \cup SystemEnvs \cup {<<Some(Chars(" Lan ")), Some(Chars("attempts:4 x:1"))>>}

\* The environment read over what a file and other calls have set.
NextEnv ==
  \/ ReadEnv(EnvCases)
  \/ FromString(ParseTexts)
  \/ ParseOptions({Chars("debug: timeout:9")})
  \/ Clear

SpecEnv == Init /\ [][NextEnv]_vars

\* Option lines with tokens that are not options before tokens that are.
TokenLines ==
  {Chars("bogus:1 ndots:3"),
   Chars("ndots:256 timeout:7"),
   Chars("timeout:x attempts:4 debug:"),
   Chars("attempts: rotate: attempts:1"),
   Chars("ndots:-1 x inet6: NDOTS:9 ndots:"),
   Chars("bogus timeout: ndots:1x"),
   Chars("edns0: timeout:31")}

NextTokens ==
  \/ ParseOptions(TokenLines)
  \/ Clear

SpecTokens == Init /\ [][NextTokens]_vars

\* Files loaded in the same turn and in later turns, two reads in flight at
\* most on each object, with other calls on the object in between.  A read
\* fails (NULL) or yields the whole text.
FileDisks == {NULL, Some(Lines(<<"domain lan">>))}

HostFileDisks == {NULL, Some(Lines(<<"1.2.3.4 a">>))}

NoEnv == <<NULL, NULL>>

NextFiles ==
  \/ FromFile(FileDisks)
  \/ FromFileAsync
  \/ FromFileResume(FileDisks)
  \/ FromSystemAsync({"linux"}, {NoEnv})
  \/ FromSystemResume(FileDisks, {NoEnv})
  \/ SetDomain({Chars("x")})
  \/ HostsFromFile(HostFileDisks)
  \/ HostsFromFileAsync
  \/ HostsFromFileResume(HostFileDisks)
  \/ HostsFromSystemAsync
  \/ HostsFromSystemResume(HostFileDisks)
  \/ SetLocal

SpecFiles == Init /\ [][NextFiles]_vars

-----------------------------------------------------------------------------
(* Properties *)

\* C1: domain and search are never both non-null, whatever sequence of
\* setDomain, setSearch, parseDomain, parseSearch, fromString, readEnv, clear
\* and clone was made, calls that throw included; a setDomain that returns
\* leaves search null and domain set, a setSearch that returns leaves domain
\* null and search set.
C1_DomainSearchExclusive ==
  /\ IsNull(rc.domain) \/ IsNull(rc.search)
  /\ (last.op = "setDomain" /\ ~last.raised) => (IsNull(rc.search) /\ ~IsNull(rc.domain))
  /\ (last.op = "setSearch" /\ ~last.raised) => (IsNull(rc.domain) /\ ~IsNull(rc.search))

\* A setSearch that threw at the seventh name, leaving the six it had stored.
C1_Witness ==
  /\ last.op = "setSearch" /\ last.raised
  /\ IsNull(rc.domain) /\ ~IsNull(rc.search) /\ Len(Val(rc.search)) = MAX_SEARCH

\* C2: sortlist never holds more than 10 entries and search never more than
\* 6; a setSort that throws does so with 10 entries in sortlist, and the
\* entries sortlist held before the call are still its first entries.
C2_Caps ==
  /\ [](/\ Len(rc.sortlist) <= MAX_SORT
        /\ IsNull(rc.search) \/ Len(Val(rc.search)) <= MAX_SEARCH)
  /\ [][(last'.op = "setSort" /\ last'.raised) =>
          /\ Len(rc'.sortlist) = MAX_SORT
          /\ SubSeq(rc'.sortlist, 1, Len(rc.sortlist)) = rc.sortlist]_vars

\* A setSort that threw on a sortlist of 10.
C2_Witness == last.op = "setSort" /\ last.raised /\ Len(rc.sortlist) = MAX_SORT

\* C3: every value of the reverse map is a key of the forward map, whatever
\* sequence of addHost, setHosts, setLocal, clear, fromString and clone was
\* made, calls that throw included.
C3_RevValuesAreKeys == \A k \in DOMAIN hosts.rev : hosts.rev[k] \in DOMAIN hosts.map

\* An addHost that threw on maps that hold entries.
C3_Witness == hlast.op = "addHost" /\ hlast.raised /\ DOMAIN hosts.rev # {}

\* The canonical text of an address addHost accepts.
canonical(host) == toString(Val(toBuffer(host)))

\* The field of an entry for the family of an address.
familyField(entry, host) ==
  IF isIPv4(Val(toBuffer(host))) THEN entry.inet4 ELSE entry.inet6

\* lookup(name) finds an entry whose field for the family of host is the
\* canonical text of host.
Finds(name, host) ==
  /\ ~IsNull(lookup(hosts, name))
  /\ familyField(Val(lookup(hosts, name)), host) = Some(canonical(host))

\* C4 as stated: after an addHost(name, ip) that returns, lookup(name) with
\* the same name string finds an entry whose inet4 or inet6, by the family of
\* ip, is the canonical text of ip.
C4_AddThenLookup ==
  (hlast.op = "addHost" /\ ~hlast.raised) => Finds(hlast.arg[1], hlast.arg[2])

\* C4 as the code has it: the same, for a name written with its trailing
\* dot, not under localdomain, and not itself a key of the reverse map; the
\* case of its letters is free.
C4_AddThenLookupFqdn ==
  (/\ hlast.op = "addHost" /\ ~hlast.raised
   /\ isFQDN(hlast.arg[1])
   /\ ~endsWith(toLowerCase(hlast.arg[1]), LOCALDOMAIN_SUFFIX)
   /\ toLowerCase(hlast.arg[1]) \notin DOMAIN hosts.rev)
  => Finds(hlast.arg[1], hlast.arg[2])

\* A name in mixed case with its trailing dot, added with an IPv6 address
\* written in full.
C4_Witness ==
  /\ hlast.op = "addHost" /\ ~hlast.raised
  /\ hlast.arg = <<Chars("B.c."), Chars("0:0:0:0:0:0:0:1")>>
  /\ Finds(hlast.arg[1], hlast.arg[2])

\* The last of the added pairs that has the address ip.
latest(ip) ==
  CHOOSE j \in 1..Len(added) :
    added[j][2] = ip /\ \A k \in (j + 1)..Len(added) : added[k][2] # ip

\* C5 as stated: for every pair added, lookup of the reverse key of its
\* address returns the entry lookup of its name returns.
C5_ReverseFindsName ==
  \A i \in 1..Len(added) :
    lookup(hosts, reverse(added[i][2])) = lookup(hosts, added[i][1])

\* C5 as the code has it: for every pair added, lookup of the reverse key of
\* its address returns the entry stored under the name most recently added
\* with that address, which is what lookup of that name returns unless the
\* name is itself a key of the reverse map.
C5_ReverseFindsLatestName ==
  \A i \in 1..Len(added) :
    /\ added[latest(added[i][2])][1] \in DOMAIN hosts.map
    /\ lookup(hosts, reverse(added[i][2])) =
         Some(hosts.map[added[latest(added[i][2])][1]])
    /\ added[latest(added[i][2])][1] \notin DOMAIN hosts.rev =>
         lookup(hosts, reverse(added[i][2])) =
           lookup(hosts, added[latest(added[i][2])][1])

\* Two names added with one address.
C5_Witness ==
  /\ Len(added) >= 2
  /\ added[1][2] = added[2][2] /\ added[1][1] # added[2][1]
  /\ ~IsNull(lookup(hosts, reverse(added[1][2])))

\* k is the reverse key of the address a, when there is one.
KeyOf(a, k) == ~IsNull(a) /\ reverse(Val(a)) = k

\* C6: each key k of the reverse map, with rev[k] = n, is the reverse key of
\* the inet4 or of the inet6 the forward entry of n has now.
C6_RevKeysCurrent ==
  \A k \in DOMAIN hosts.rev :
    /\ hosts.rev[k] \in DOMAIN hosts.map
    /\ \/ KeyOf(hosts.map[hosts.rev[k]].inet4, k)
       \/ KeyOf(hosts.map[hosts.rev[k]].inet6, k)

\* parseOptions was last called with the line that is this one token.
Parsed(token) == last.op = "parseOptions" /\ last.arg = Chars(token)

\* C7: parseOptions of a bare flag has the effect the options table lists.
C7_BareFlags ==
  /\ Parsed("debug") => rc.debug
  /\ Parsed("rotate") => rc.rotate
  /\ Parsed("no-check-names") => ~rc.checkNames
  /\ Parsed("inet6") => rc.inet6
  /\ Parsed("ip6-bytestring") => rc.byteString
  /\ Parsed("ip6-dotint") => rc.dotInt
  /\ Parsed("no-ip6-dotint") => ~rc.dotInt
  /\ Parsed("edns0") => rc.edns
  /\ Parsed("single-request") => rc.singleRequest
  /\ Parsed("single-request-reopen") => rc.singleRequestReopen
  /\ Parsed("no-tld-query") => ~rc.tldQuery
  /\ Parsed("use-vc") => rc.forceTCP

\* The cap and the field of a numeric option.
capOf(name) ==
  CASE name = Chars("ndots") -> MAX_DOTS
    [] name = Chars("timeout") -> MAX_TIMEOUT
    [] name = Chars("attempts") -> MAX_ATTEMPTS

fieldOf(this, name) ==
  CASE name = Chars("ndots") -> this.dots
    [] name = Chars("timeout") -> this.timeout
    [] name = Chars("attempts") -> this.attempts

\* C8: parseOptions of name:N leaves the field of name at N when N is at
\* most the cap of name and at the cap otherwise ('ndots:20 attempts:9'
\* gives dots 15 and attempts 5); dots stays in 0..15, timeout in 0..30 and
\* attempts in 0..5 under parseOptions, fromString, readEnv and clear.
C8_Clamped ==
  /\ rc.dots \in 0..MAX_DOTS
  /\ rc.timeout \in 0..MAX_TIMEOUT
  /\ rc.attempts \in 0..MAX_ATTEMPTS
  /\ \A name \in NumericNames, n \in NumericValues :
       (last.op = "parseOptions" /\ last.arg = NumericToken(name, n)) =>
         fieldOf(rc, name) = IF n <= capOf(name) THEN n ELSE capOf(name)
  /\ Parsed("ndots:20 attempts:9") => (rc.dots = 15 /\ rc.attempts = 5)

\* The line 'ndots:20 attempts:9' parsed, both values above their caps.
C8_Witness == Parsed("ndots:20 attempts:9") /\ rc.dots = MAX_DOTS /\ rc.attempts = MAX_ATTEMPTS

\* C9: fromString returns without throwing, and the servers it leaves are
\* those of the valid nameserver lines of the text, the IPv4 ones and then
\* the IPv6 ones, each in the order of the lines.
C9_ServersOfValidLines ==
  \A i \in DOMAIN ServerCases :
    (last.op = "fromString" /\ last.arg = ServerCases[i].text) =>
      (~last.raised /\ getServers(rc) = ServerCases[i].servers)

\* A malformed nameserver line and then a valid one: one server.
C9_Witness ==
  /\ last.op = "fromString" /\ last.arg = ServerCases[1].text
  /\ getServers(rc) = <<Chars("8.8.8.8:53")>>

\* The valid names of a search list, and their fully qualified forms.
validNames(list) == SelectSeq(splitSpace(list), isName)

qualified(names) == [i \in 1..Len(names) |-> fqdn(names[i])]

\* C10 as stated: setSearch of a list with exactly 6 valid names returns and
\* leaves search at their fully qualified forms in the order given; with 7
\* or more valid names it throws; the tokens that are no names are dropped
\* and do not count.
C10_SearchLimit ==
  last.op = "setSearch" =>
    /\ Len(validNames(last.arg)) = MAX_SEARCH =>
         (~last.raised /\ rc.search = Some(qualified(validNames(last.arg))))
    /\ Len(validNames(last.arg)) > MAX_SEARCH => last.raised
    /\ ~last.raised => rc.search = Some(qualified(validNames(last.arg)))

\* C10 as the code has it: the same for a list of at most 256 characters; a
\* longer list throws whatever it holds.
C10_SearchLimitOfShortList ==
  last.op = "setSearch" =>
    /\ (Len(validNames(last.arg)) <= MAX_SEARCH /\ Len(last.arg) <= MAX_SEARCH_TEXT) =>
         (~last.raised /\ rc.search = Some(qualified(validNames(last.arg))))
    /\ Len(validNames(last.arg)) > MAX_SEARCH => last.raised
    /\ Len(last.arg) > MAX_SEARCH_TEXT => last.raised
    /\ ~last.raised => rc.search = Some(qualified(validNames(last.arg)))

\* Six valid names in a list of exactly 256 characters.
C10_Witness ==
  /\ last.op = "setSearch" /\ last.arg = Long256 /\ ~last.raised
  /\ Len(Val(rc.search)) = MAX_SEARCH

\* The wrappers of the setters.
ParseOps == {"parseServer", "parseDomain", "parseSearch", "parseSort"}

\* The setter a wrapper delegates to throws on the string the wrapper was given.
SetterThrows(this, op, text) ==
  CASE op = "parseServer" -> addServer(this, text).err
    [] op = "parseDomain" -> setDomain(this, text).err
    [] op = "parseSearch" -> setSearch(this, text).err
    [] op = "parseSort" -> setSort(this, text).err

\* C11: a call of parseServer, parseDomain, parseSearch or parseSort returns
\* without throwing, also with a string its setter throws on; a setServers
\* whose list holds an invalid address throws.
C11_WrappersReturn ==
  /\ [][(last'.op \in ParseOps /\ SetterThrows(rc, last'.op, last'.arg)) => ~last'.raised]_vars
  /\ [](last.op \in ParseOps => ~last.raised)
  /\ []((/\ last.op = "setServers"
         /\ \E i \in 1..Len(last.arg) : addServer(constructor, last.arg[i]).err)
        => last.raised)

\* parseSearch of seven names, on which setSearch throws, has returned.
C11_Witness ==
  /\ last.op = "parseSearch" /\ ~last.raised
  /\ setSearch(rc, last.arg).err

SystemOps == {"fromSystem", "fromSystemAsync"}

\* The load fell back: there is no system file, or reading it failed.
FellBack(arg) == arg.platform = "win32" \/ IsNull(arg.disk)

\* C12: in fromSystem and fromSystemAsync readEnv is called exactly once and
\* is the last call, whether there is no system file, the load fails or the
\* load succeeds; when the load fell back, the object is the cleared one with
\* the default servers, which are not empty, and the environment applied to
\* it, so that LOCALDOMAIN 'test.' ends with the domain 'test.'.
C12_EnvLast ==
  last.op \in SystemOps =>
    /\ Cardinality({i \in 1..Len(last.calls) : last.calls[i] = "readEnv"}) = 1
    /\ last.calls[Len(last.calls)] = "readEnv"
    /\ FellBack(last.arg) =>
         /\ rc = readEnv(setServers(constructor, GOOGLE_NS).st, last.arg.env)
         /\ Len(rc.ns4) + Len(rc.ns6) > 0
         /\ last.arg.env[1] = Some(Chars("test.")) => rc.domain = Some(Chars("test."))
    /\ ~FellBack(last.arg) =>
         rc = readEnv(fromString(constructor, Val(last.arg.disk)), last.arg.env)

\* The asynchronous load failed on an object that had a domain, and
\* LOCALDOMAIN was 'test.'.
C12_Witness ==
  /\ last.op = "fromSystemAsync" /\ last.arg.platform = "linux"
  /\ IsNull(last.arg.disk)
  /\ last.arg.env[1] = Some(Chars("test."))
  /\ rc.domain = Some(Chars("test."))
  /\ last.calls = <<"getSystem", "fromFile", "clear", "setDefault", "readEnv">>

\* The loopback default: one entry and the reverse keys of its two addresses.
Loopback ==
  [map |-> mapSet(emptyMap, Chars("localhost."),
                  [name |-> Some(Chars("localhost.")), inet4 |-> Some(Chars("127.0.0.1")),
                   inet6 |-> Some(Chars("::1")), hostname |-> NULL]),
   rev |-> mapSet(mapSet(emptyMap, Chars("1.0.0.127.in-addr.arpa."), Chars("localhost.")),
                  Chars("1.0.0.0.0.0.0.0.0.0.0.0.0.0.0.0.0.0.0.0.0.0.0.0.0.0.0.0.0.0.0.0.ip6.arpa."),
                  Chars("localhost."))]

\* C13: Hosts.fromSystem and Hosts.fromSystemAsync do not throw, and when the
\* load fails the maps hold the loopback default and nothing else, whatever
\* they held before.
C13_LoopbackOnFailure ==
  hlast.op \in SystemOps =>
    /\ ~hlast.raised
    /\ IsNull(hlast.arg) => hosts = Loopback

\* The asynchronous load has failed, and the maps hold the loopback default.
C13_Witness ==
  /\ hlast.op = "fromSystemAsync" /\ IsNull(hlast.arg) /\ hloading = <<>>
  /\ hosts = Loopback

\* C14: after fromSystem and fromSystemAsync, on every path, a readable file
\* without a valid nameserver line included, at least one nameserver is
\* configured, and the call has not thrown.
C14_ServerAfterLoad ==
  last.op \in SystemOps => (~last.raised /\ serverCount(rc) >= 1)

\* C15: clone() is a deep, independent copy: a write into a collection the
\* copy owns, its search list and its sortlist among them, leaves the
\* original as it was, and a write into the original's leaves the copy.
C15_CloneIndependent ==
  [][(~IsNull(orig) /\ last'.op = "push") =>
       IF last'.arg[1] = "copy" THEN orig' = orig ELSE rc' = rc]_vars

\* C17: randomServer(inet6) returns an element of ns6 when inet6 is true and
\* ns6 is not empty; otherwise an element of ns4 when ns4 is not empty;
\* otherwise it throws.  What it returns is a configured server, and the
\* call leaves the configuration as it was.
C17_RandomServer ==
  /\ [](last.op = "randomServer" =>
          /\ (last.arg /\ Len(rc.ns6) > 0) =>
               (~last.raised /\ \E i \in 1..Len(rc.ns6) : last.result = Some(rc.ns6[i]))
          /\ (~(last.arg /\ Len(rc.ns6) > 0) /\ Len(rc.ns4) > 0) =>
               (~last.raised /\ \E i \in 1..Len(rc.ns4) : last.result = Some(rc.ns4[i]))
          /\ (~(last.arg /\ Len(rc.ns6) > 0) /\ Len(rc.ns4) = 0) => last.raised
          /\ ~last.raised =>
               \E i \in 1..Len(getServers(rc)) : Val(last.result).hostname = getServers(rc)[i])
  /\ [][last'.op = "randomServer" => rc' = rc]_vars

\* randomServer(false) has returned an IPv4 server of an object that has
\* IPv6 servers too.
C17_Witness ==
  /\ last.op = "randomServer" /\ ~last.arg /\ ~last.raised
  /\ Len(rc.ns6) > 0
  /\ Val(last.result).type = 4

\* The entry lookup finds for the name of the last query.
Queried == lookup(hosts, hlast.arg[1])

\* The record types an entry with these addresses answers a query type with.
Families(entry, type) ==
  (IF type \in {1, 255} /\ ~IsNull(entry.inet4) THEN <<1>> ELSE <<>>)
  \o (IF type \in {28, 255} /\ ~IsNull(entry.inet6) THEN <<28>> ELSE <<>>)

\* C18: query(name, type) returns null exactly when lookup(name) finds no
\* entry.  With an entry: type PTR gives one PTR record whose target is the
\* name of the entry; A, AAAA and ANY give one record for each address
\* family the type selects and the entry has, A before AAAA, with the
\* address of the entry; every record has TTL 300 and class IN; any other
\* type gives the empty list.  query leaves the maps as they were.
C18_Query ==
  /\ [](hlast.op = "query" =>
          /\ IsNull(hlast.result) <=> IsNull(Queried)
          /\ ~IsNull(Queried) =>
               /\ \A i \in 1..Len(Val(hlast.result)) :
                    /\ Val(hlast.result)[i].ttl = 300
                    /\ Val(hlast.result)[i].class = 1
                    /\ Val(hlast.result)[i].name = hlast.arg[1]
               /\ hlast.arg[2] = 12 =>
                    /\ Len(Val(hlast.result)) = 1
                    /\ Val(hlast.result)[1].type = 12
                    /\ Val(hlast.result)[1].data.ptr = Val(Val(Queried).name)
               /\ hlast.arg[2] # 12 =>
                    /\ [i \in 1..Len(Val(hlast.result)) |-> Val(hlast.result)[i].type]
                         = Families(Val(Queried), hlast.arg[2])
                    /\ \A i \in 1..Len(Val(hlast.result)) :
                         Val(hlast.result)[i].data.address =
                           IF Val(hlast.result)[i].type = 1
                             THEN Val(Val(Queried).inet4)
                             ELSE Val(Val(Queried).inet6))
  /\ [][hlast'.op = "query" => hosts' = hosts]_vars

\* An ANY query for an entry with both addresses has returned the A record
\* and then the AAAA record.
C18_Witness ==
  /\ hlast.op = "query" /\ hlast.arg[2] = 255
  /\ ~IsNull(hlast.result)
  /\ Len(Val(hlast.result)) = 2
  /\ Val(hlast.result)[1].type = 1 /\ Val(hlast.result)[2].type = 28

\* A key of the forward map is in lower case, ends with a dot, is a name, and
\* is the name field of its entry.
Normalized(k) ==
  /\ toLowerCase(k) = k
  /\ k # <<>> /\ k[Len(k)] = "."
  /\ isName(k)
  /\ hosts.map[k].name = Some(k)

\* C19 as stated: every key of the forward map is in lower case, ends with a
\* dot, passes the validation of names, is the name of its entry, and does
\* not end with '.localdomain.'.
C19_KeysNormalized ==
  \A k \in DOMAIN hosts.map : Normalized(k) /\ ~endsWith(k, Chars(".localdomain."))

\* C19, amended: every key of the forward map is in lower case, ends with a
\* dot, passes the validation of names and is the name of its entry; addHost
\* strips one trailing '.localdomain.' from the name, keeping the label
\* before it and its dot, so the key it stores ends with '.localdomain.'
\* only when the name ended with '.localdomain.localdomain.'.
C19_KeysNormalizedStrippedOnce ==
  /\ [](\A k \in DOMAIN hosts.map : Normalized(k))
  /\ [][(hlast'.op = "addHost" /\ ~hlast'.raised) =>
          \E k \in DOMAIN hosts'.map :
            \/ /\ k = fqdn(toLowerCase(hlast'.arg[1]))
               /\ ~endsWith(k, Chars(".localdomain."))
            \/ k \o Chars("localdomain.") = fqdn(toLowerCase(hlast'.arg[1]))]_vars

\* A name with the suffix in mixed case is stored under the label before it.
C19_Witness ==
  /\ hlast.op = "addHost" /\ ~hlast.raised
  /\ hlast.arg[1] = Chars("D.LocalDomain")
  /\ Chars("d.") \in DOMAIN hosts.map

\* The fields the structural setters write.
Structure(this) ==
  <<this.domain, this.search, this.sortlist, this.ns4, this.ns6, this.keys>>

\* C20: when setSearch, setSort or setServers throws, domain, search,
\* sortlist, ns4, ns6 and keys are what they were before the call.
C20_SettersAbortWhole ==
  [][(last'.op \in {"setSearch", "setSort", "setServers"} /\ last'.raised)
       => Structure(rc') = Structure(rc)]_vars

\* The fields of the hosts file of one line the last fromString read.
Fields == splitSpace(trim(toLowerCase(preprocess(hlast.arg))))

\* The last fromString read one line, of an address and names that are all
\* valid.
ValidLine ==
  /\ hlast.op = "fromString"
  /\ \A i \in 1..Len(hlast.arg) : hlast.arg[i] \notin {"\n", "\r"}
  /\ Len(Fields) >= 2
  /\ ~IsNull(toBuffer(Fields[1]))
  /\ \A i \in 2..Len(Fields) : isName(fqdn(Fields[i]))

\* The names of the line that are to be keys: the only name, or all names
\* but the last.
KeyFields ==
  IF Len(Fields) = 2 THEN {Fields[2]} ELSE {Fields[i] : i \in 2..(Len(Fields) - 1)}

\* C21: of a line with an address and k names, the only name (k = 1) is
\* bound to the address without a hostname; with k >= 2 the first k - 1
\* names, and only they, are keys of the forward map bound to the address,
\* and the last field is their hostname and is not added as a key.
C21_FieldRule ==
  ValidLine =>
    /\ DOMAIN hosts.map = {stripLocal(fqdn(f)) : f \in KeyFields}
    /\ \A k \in DOMAIN hosts.map :
         /\ familyField(hosts.map[k], Fields[1]) = Some(canonical(Fields[1]))
         /\ hosts.map[k].hostname =
              IF Len(Fields) = 2 THEN NULL ELSE Some(fqdn(Fields[Len(Fields)]))

\* A line of three names has given two keys with the third as hostname.
C21_Witness ==
  /\ ValidLine /\ Len(Fields) = 4
  /\ DOMAIN hosts.map = {Chars("one."), Chars("two.b.")}
  /\ hosts.map[Chars("one.")].hostname = Some(Chars("alias."))

\* The lines of the text the last fromString read, and the fields of one.
TextLines == split(toLowerCase(preprocess(hlast.arg)), "\n")

PartsOf(chunk) == splitSpace(trim(chunk))

\* A line that is neither empty nor a comment and starts with an address.
EntryLine(chunk) ==
  /\ trim(chunk) # <<>>
  /\ trim(chunk)[1] \notin {"#", ";"}
  /\ ~IsNull(toBuffer(PartsOf(chunk)[1]))

\* The positions of the names of a line, its hostname left out.
NamePositions(parts) ==
  IF Len(parts) > 2 THEN 2..(Len(parts) - 1) ELSE 2..Len(parts)

\* C22: fromString does not throw, and a name that fails validation is
\* skipped alone: every valid name of the same line and of the later lines
\* is in the forward map with its address.
C22_SkipsOnlyInvalid ==
  hlast.op = "fromString" =>
    /\ ~hlast.raised
    /\ \A l \in 1..Len(TextLines) :
         EntryLine(TextLines[l]) =>
           \A i \in NamePositions(PartsOf(TextLines[l])) :
             isName(fqdn(PartsOf(TextLines[l])[i])) =>
               /\ stripLocal(fqdn(PartsOf(TextLines[l])[i])) \in DOMAIN hosts.map
               /\ ~IsNull(familyField(
                     hosts.map[stripLocal(fqdn(PartsOf(TextLines[l])[i]))],
                     PartsOf(TextLines[l])[1]))

\* The field of an entry for the family an address is not of.
otherField(entry, host) ==
  IF isIPv4(Val(toBuffer(host))) THEN entry.inet6 ELSE entry.inet4

\* The addresses of one family added for a key since the maps were rebuilt.
AddedFor(k, v4) ==
  {j \in 1..Len(added) : added[j][1] = k /\ isIPv4(Val(toBuffer(added[j][2]))) = v4}

\* The last of them.
LastFor(k, v4) == added[CHOOSE j \in AddedFor(k, v4) : \A i \in AddedFor(k, v4) : i <= j][2]

\* C23: after addHost calls that returned, the inet4 of an entry is the
\* canonical form of the last IPv4 address added for its name and the inet6
\* that of the last IPv6 address; an addHost writes the field of the family
\* of its address, keeps the other family's field of the entry, and keeps
\* the entry of every other name.
C23_OverwritePerFamily ==
  /\ [](\A j \in 1..Len(added) :
          /\ added[j][1] \in DOMAIN hosts.map
          /\ familyField(hosts.map[added[j][1]], added[j][2])
               = Some(LastFor(added[j][1], isIPv4(Val(toBuffer(added[j][2]))))))
  /\ [][(hlast'.op = "addHost" /\ ~hlast'.raised) =>
          /\ DOMAIN hosts'.map = DOMAIN hosts.map \cup {stripLocal(fqdn(toLowerCase(hlast'.arg[1])))}
          /\ familyField(hosts'.map[stripLocal(fqdn(toLowerCase(hlast'.arg[1])))], hlast'.arg[2])
               = Some(canonical(hlast'.arg[2]))
          /\ otherField(hosts'.map[stripLocal(fqdn(toLowerCase(hlast'.arg[1])))], hlast'.arg[2])
               = IF stripLocal(fqdn(toLowerCase(hlast'.arg[1]))) \in DOMAIN hosts.map
                   THEN otherField(hosts.map[stripLocal(fqdn(toLowerCase(hlast'.arg[1])))],
                                   hlast'.arg[2])
                   ELSE NULL
          /\ \A n \in DOMAIN hosts.map :
               n # stripLocal(fqdn(toLowerCase(hlast'.arg[1]))) => hosts'.map[n] = hosts.map[n]]_vars

\* A name added with an IPv6 address, then with an IPv4 address, then with
\* another name's address of either family: its entry holds both addresses.
C23_Witness ==
  /\ hlast.op = "addHost" /\ ~hlast.raised /\ Len(added) = 3
  /\ added[1] = <<Chars("b.c."), Chars("::1")>>
  /\ added[2] = <<Chars("b.c."), Chars("1.2.3.4")>>
  /\ added[3][1] = Chars("a.")
  /\ hosts.map[Chars("b.c.")].inet6 = Some(Chars("::1"))
  /\ hosts.map[Chars("b.c.")].inet4 = Some(Chars("1.2.3.4"))

\* C24: the state after fromString(text), of Hosts and of ResolvConf, is the
\* state of a new object after fromString(text), whatever the object held
\* before the call; a second fromString(text) gives the same state again.
C24_FromStringResets ==
  /\ last.op = "fromString" =>
       /\ rc = fromString(constructor, last.arg)
       /\ fromString(rc, last.arg) = rc
  /\ hlast.op = "fromString" =>
       /\ hosts = Hosts_fromString(Hosts_constructor, hlast.arg)
       /\ Hosts_fromString(hosts, hlast.arg) = hosts

\* Both objects have read a text: the ResolvConf the one that has a domain
\* and no search, sortlist or ndots, the Hosts a single line.
C24_Witness ==
  /\ last.op = "fromString" /\ hlast.op = "fromString"
  /\ rc.domain = Some(Chars("lan.")) /\ rc.sortlist = <<>> /\ rc.dots = 1
  /\ Len(rc.ns4) = 0 /\ Len(rc.ns6) = 1
  /\ DOMAIN hosts.map = {Chars("solo.")}

\* LOCALDOMAIN is set and parseDomain takes it as a domain.
ValidDomain(env) == truthy(env[1]) /\ isName(toLowerCase(trim(Val(env[1]))))

\* The object after the LOCALDOMAIN half of readEnv.
WithDomain(this, env) ==
  IF ValidDomain(env)
    THEN [this EXCEPT !.domain = Some(fqdn(toLowerCase(trim(Val(env[1]))))),
                      !.search = NULL]
    ELSE this

\* C25: after readEnv with a valid LOCALDOMAIN the domain is its lower-case
\* fully qualified form and search is null, also when a file had set a
\* search list; with LOCALDOMAIN unset or invalid, domain and search are as
\* before; RES_OPTIONS is applied as an options line whether LOCALDOMAIN is
\* set or not; ns4, ns6, keys and sortlist are as before, and readEnv does
\* not throw.
C25_ReadEnv ==
  [][last'.op = "readEnv" =>
       /\ ~last'.raised
       /\ rc'.domain = WithDomain(rc, last'.arg).domain
       /\ rc'.search = WithDomain(rc, last'.arg).search
       /\ rc' = IF truthy(last'.arg[2])
                  THEN parseOptions(WithDomain(rc, last'.arg), Val(last'.arg[2]))
                  ELSE WithDomain(rc, last'.arg)
       /\ <<rc'.ns4, rc'.ns6, rc'.keys, rc'.sortlist>>
            = <<rc.ns4, rc.ns6, rc.keys, rc.sortlist>>]_vars

\* The environment has replaced the search list of a file by a domain, with
\* the server and the sortlist of the file kept.
C25_Witness ==
  /\ last.op = "readEnv" /\ last.arg[1] = Some(Chars("Test."))
  /\ rc.domain = Some(Chars("test.")) /\ IsNull(rc.search)
  /\ Len(rc.ns4) = 1 /\ Len(rc.sortlist) = 1 /\ rc.dots = 3

\* The tokens of an options line, and the name and the argument of one.
Tokens(line) == splitSpace(toLowerCase(trim(line)))

NameOf(t) == IF indexOf(t, ":") = -1 THEN t ELSE SubSeq(t, 1, indexOf(t, ":"))

ArgOf(t) == IF indexOf(t, ":") = -1 THEN <<>> ELSE SubSeq(t, indexOf(t, ":") + 2, Len(t))

\* A token whose name is not an option, or a numeric option whose argument
\* is not an unsigned 8-bit number.
Bad(t) ==
  \/ NameOf(t) \notin FlagInputs \cup NumericNames
  \/ NameOf(t) \in NumericNames /\ IsNull(parseU8(ArgOf(t)))

\* The positions of the tokens of a line that set the numeric option name.
Setting(line, name) ==
  {i \in 1..Len(Tokens(line)) : NameOf(Tokens(line)[i]) = name /\ ~Bad(Tokens(line)[i])}

\* Each line without its bad tokens.
GoodLine ==
  [line \in TokenLines |->
     Join(SelectSeq(Tokens(line), LAMBDA t : ~Bad(t)), <<" ">>)]

\* The lines that have bad tokens only.
AllBad == {line \in TokenLines : \A i \in 1..Len(Tokens(line)) : Bad(Tokens(line)[i])}

\* The capped value of the last good token of each numeric option in each
\* line, NULL when the line has none.
LastGood ==
  [line \in TokenLines |->
     [name \in NumericNames |->
        IF Setting(line, name) = {} THEN NULL
        ELSE Some(min(capOf(name),
                      Val(parseU8(ArgOf(Tokens(line)[
                        CHOOSE i \in Setting(line, name) :
                          \A j \in Setting(line, name) : j <= i])))))]]

\* C26: parseOptions does not throw; a token with an unrecognized name, or
\* a numeric option with an argument that is not an unsigned 8-bit number,
\* changes no field, and the tokens after it are applied as they are
\* without it: the line gives what the line without its bad tokens gives,
\* and each numeric option has the capped value of its last good token.
C26_BadTokenAlone ==
  [][last'.op = "parseOptions" =>
       /\ ~last'.raised
       /\ rc' = parseOptions(rc, GoodLine[last'.arg])
       /\ last'.arg \in AllBad => rc' = rc
       /\ \A name \in NumericNames :
            fieldOf(rc', name) =
              IF IsNull(LastGood[last'.arg][name]) THEN fieldOf(rc, name)
              ELSE Val(LastGood[last'.arg][name])]_vars

\* A line whose first, second and last tokens are bad has set inet6 and
\* ndots from the two tokens between them.
C26_Witness ==
  /\ last.op = "parseOptions" /\ last.arg = Chars("ndots:-1 x inet6: NDOTS:9 ndots:")
  /\ rc.inet6 /\ rc.dots = 9

FileOps == {"fromFile", "fromFileAsync"}

\* C27: when the read of fromFile or fromFileAsync fails, on a ResolvConf or
\* on a Hosts, the call throws and the object is what it was before the
\* call (for fromFileAsync: before the turn in which the read failed).
C27_FailedReadUntouched ==
  [][/\ (last'.op \in FileOps /\ IsNull(last'.arg)) => last'.raised
     /\ (last'.op \in FileOps /\ last'.raised) => rc' = rc
     /\ (hlast'.op \in FileOps /\ IsNull(hlast'.arg)) => hlast'.raised
     /\ (hlast'.op \in FileOps /\ hlast'.raised) => hosts' = hosts]_vars

\* A fromFileAsync whose read failed on a configuration that holds a loaded
\* domain, and a fromFile whose read failed on a database that holds a
\* loaded name.
C27_Witness ==
  /\ last.op = "fromFileAsync" /\ last.raised /\ rc.domain = Some(Chars("lan."))
  /\ hlast.op = "fromFile" /\ hlast.raised
  /\ hosts = Hosts_fromString(Hosts_constructor, Lines(<<"1.2.3.4 a">>))

\* What a load gives on a newly constructed object: the parse of the text
\* read, and for the system loaders the fallback when the read failed.
FileLoaded == [disk \in FileDisks \ {NULL} |-> fromString(constructor, Val(disk))]

SystemLoaded == [disk \in FileDisks |-> fromSystem(constructor, "linux", disk, NoEnv).st]

HostsFileLoaded ==
  [disk \in HostFileDisks \ {NULL} |-> Hosts_fromString(Hosts_constructor, Val(disk))]

HostsSystemLoaded ==
  [disk \in HostFileDisks |-> Hosts_fromSystem(Hosts_constructor, disk).st]

\* C28: the turn that starts fromFileAsync or fromSystemAsync leaves the
\* object as it is; the turn in which a read completes leaves the object as
\* the load leaves a newly constructed one, whatever was loaded or set
\* while the read was pending and whichever other read is still in flight.
\* A read that fails leaves the object untouched (fromFileAsync) or with
\* the loader's fallback and nothing else (fromSystemAsync).
C28_AsyncAtomic ==
  [][/\ Len(loading') > Len(loading) => rc' = rc
     /\ Len(loading') < Len(loading) =>
          rc' = IF last'.op = "fromSystemAsync" THEN SystemLoaded[last'.arg.disk]
                ELSE IF last'.raised THEN rc
                ELSE FileLoaded[last'.arg]
     /\ Len(hloading') > Len(hloading) => hosts' = hosts
     /\ Len(hloading') < Len(hloading) =>
          hosts' = IF hlast'.op = "fromSystemAsync" THEN HostsSystemLoaded[hlast'.arg]
                   ELSE IF hlast'.raised THEN hosts
                   ELSE HostsFileLoaded[hlast'.arg]]_vars

\* Of two overlapping loads of a configuration the read of fromFileAsync
\* completed while that of fromSystemAsync is pending, and the object holds
\* the parse of the file; a database holds the parse of the file that
\* fromFileAsync read.
C28_Witness ==
  /\ last.op = "fromFileAsync" /\ ~last.raised /\ rc = FileLoaded[last.arg]
  /\ Len(loading) = 1 /\ loading[1].op = "fromSystemAsync"
  /\ hlast.op = "fromFileAsync" /\ ~hlast.raised /\ hosts = HostsFileLoaded[hlast.arg]

====
